---- MODULE Spec2Model ----
(***************************************************************************)
(* Booking availability and conflict-resolution engine of the site:        *)
(* routes/booking.js (POST /api/booking), models/Booking.js and email.js.  *)
(*                                                                         *)
(* Time is counted in minutes of local wall-clock time since Monday        *)
(* 2024-12-23 00:00 (the process time zone is taken to have no DST change  *)
(* inside the modelled weeks).  A request's startAt is the outcome of      *)
(* `new Date(startAt)`: absent, unparsable (NaN) or an instant.            *)
(***************************************************************************)
EXTENDS Integers, Sequences, FiniteSets, TLC

VARIABLES
    cfg,        \* process.env as read at module load (booking.js:10-18, email.js:4-8)
    now,        \* the wall clock, `new Date()`
    bookings,   \* the Booking collection
    pc,         \* per request handler (numbered by arrival): the await it is suspended at
    req,        \* per request handler: req.body
    resp,       \* per request handler: the response sent (status, error)
    created,    \* per request handler: _id of the booking its Booking.create stored
    seen,       \* per request handler: the _ids in the collection when its findOne ran
    cand,       \* policy evaluation: the candidate request
    verdicts,   \* policy evaluation: the answers given to cand, with their times
    mails,      \* per request handler: sendEmail calls made, messages handed to SMTP
    adminUser,  \* process.env.ADMIN_USER, "" when it or ADMIN_PASS is unset
    adm,        \* the POST /admin/bookings/:id request in progress or last answered
    avail,      \* the GET /api/booking/availability request in progress or last answered
    loginTokens, \* the ClientLoginToken collection
    ver,        \* per GET /client/verify request: the await it is suspended at, its answer
    slsVerdicts, \* policy evaluation: the answers of the serverless handler to cand
    clients,    \* per world: the emails of the Client collection
    login,      \* per world: the run of POST /client/login, its answer, the record it stored
    projects,   \* the Project collection, by _id
    portal,     \* the client-portal POST request in progress or last answered
    loginBuckets, \* server.js:265, the Map from client IP to {count, resetAt}
    adminLogin, \* the last answer of POST /admin/login
    reached,    \* per IP, the requests that reached the credential comparison
                \* since the bucket last restarted
    page        \* the booking page of one browser: config, availability, chosen slot

\* the state of the routes other than the booking and admin-update routes
siteVars == <<avail, loginTokens, ver, slsVerdicts, clients, login, projects, portal,
             loginBuckets, adminLogin, reached, page>>

vars == <<cfg, now, bookings, pc, req, resp, created, seen, cand, verdicts,
          mails, adminUser, adm, siteVars>>

-----------------------------------------------------------------------------
(* Bounds of the model *)

NumHandlers == 2

Handlers == 1..NumHandlers

\* how many times the policy is evaluated on one candidate request
MaxEvals == 2

-----------------------------------------------------------------------------
(* Local-time calendar: the Date getters used by the route *)

MinutesPerDay == 24 * 60

DayIndex(t) == t \div MinutesPerDay

\* Date.prototype.getDay: 0 = Sunday .. 6 = Saturday; day 0 of the model is a Monday
getDay(t) == (DayIndex(t) + 1) % 7

getHours(t) == (t % MinutesPerDay) \div 60

getMinutes(t) == t % 60

\* 2024-12-23 + DayIndex(t), for the weeks 2024-12-23 .. 2025-01-31
getFullYear(t) == IF DayIndex(t) <= 8 THEN 2024 ELSE 2025

getMonth(t) == IF DayIndex(t) <= 8 THEN 11 ELSE 0

getDate(t) == IF DayIndex(t) <= 8 THEN 23 + DayIndex(t) ELSE DayIndex(t) - 8

\* String(n).padStart(2, '0')
padStart2(n) == IF n < 10 THEN "0" \o ToString(n) ELSE ToString(n)

\* getDayKey without padStart
getDayKeyUnpadded(t) ==
    ToString(getFullYear(t)) \o "-" \o ToString(getMonth(t) + 1) \o "-" \o ToString(getDate(t))

getDayKey(t) ==
    ToString(getFullYear(t)) \o "-" \o padStart2(getMonth(t) + 1) \o "-" \o padStart2(getDate(t))

\* the instant of local time hh:mm on model day d
At(d, hh, mm) == d * MinutesPerDay + hh * 60 + mm

-----------------------------------------------------------------------------
(* Configuration (process.env) *)

\* the range of the schema (models/Booking.js:10) in place of the route's set
SchemaDurations == 15..180

ALLOWED_DURATIONS == {15, 30, 45, 60}

ALLOWED_SERVICES == {"UI/UX", "MERN", "Java Full Stack", "Python", "Client Meeting"}

DEFAULT_START_HOUR == 10
DEFAULT_END_HOUR == 18
DEFAULT_BUFFER_MIN == 15
DEFAULT_DAYS_AHEAD == 14

\* no variable set: every default of booking.js:10-18, no NOTIFY_EMAIL, no SMTP_*
CfgDefault ==
    [startHour |-> DEFAULT_START_HOUR, endHour |-> DEFAULT_END_HOUR,
     bufferMin |-> DEFAULT_BUFFER_MIN, daysAhead |-> DEFAULT_DAYS_AHEAD,
     allowWeekends |-> FALSE, blackout |-> {},
     notify |-> FALSE, smtp |-> FALSE]

\* 9-18, buffer 30, blackout on Saturday 2024-12-28 and Thursday 2025-01-02,
\* NOTIFY_EMAIL and SMTP_* set
CfgScenario ==
    [startHour |-> 9, endHour |-> 18,
     bufferMin |-> 30, daysAhead |-> DEFAULT_DAYS_AHEAD,
     allowWeekends |-> FALSE, blackout |-> {"2024-12-28", "2025-01-02"},
     notify |-> TRUE, smtp |-> TRUE]

\* BOOKING_ALLOW_WEEKENDS=true, SMTP set, no operator address
CfgWeekends ==
    [startHour |-> 9, endHour |-> 18,
     bufferMin |-> DEFAULT_BUFFER_MIN, daysAhead |-> DEFAULT_DAYS_AHEAD,
     allowWeekends |-> TRUE, blackout |-> {"2025-01-02"},
     notify |-> FALSE, smtp |-> TRUE]

Configs == {CfgDefault, CfgScenario, CfgWeekends}

-----------------------------------------------------------------------------
(* Request bodies *)

Missing == [kind |-> "missing", t |-> 0]
NaN == [kind |-> "NaN", t |-> 0]
Instant(t) == [kind |-> "instant", t |-> t]

\* String(s).trim() on a string given as a sequence of characters
RECURSIVE trimStart(_)
trimStart(s) == IF s # <<>> /\ Head(s) = " " THEN trimStart(Tail(s)) ELSE s

RECURSIVE trimEnd(_)
trimEnd(s) ==
    IF s # <<>> /\ s[Len(s)] = " " THEN trimEnd(SubSeq(s, 1, Len(s) - 1)) ELSE s

trim(s) == trimEnd(trimStart(s))

\* [^\s@]+ over s[i..j]
NoSpaceAt(s, i, j) == i <= j /\ \A k \in i..j : s[k] \notin {" ", "@"}

\* /^[^\s@]+@[^\s@]+\.[^\s@]+$/.test(s)
emailRegexTest(s) ==
    \E i \in 1..Len(s) : \E j \in 1..Len(s) :
        /\ i < j
        /\ s[i] = "@"
        /\ s[j] = "."
        /\ NoSpaceAt(s, 1, i - 1)
        /\ NoSpaceAt(s, i + 1, j - 1)
        /\ NoSpaceAt(s, j + 1, Len(s))

PhoneChars == {"0", "1", "2", "3", "4", "5", "6", "7", "8", "9", "+", "(", ")", "-", " "}

\* /^[0-9+()\-\s]{7,}$/.test(s)
phoneRegexTest(s) == Len(s) >= 7 /\ \A k \in 1..Len(s) : s[k] \in PhoneChars

GoodEmail == <<" ", "a", "@", "b", ".", "c">>
BadEmail == <<"a", "@", "b">>
GoodPhone == <<"5", "5", "5", "-", "0", "1", "0", "0">>
BadPhone == <<"5", "5", "5", "x", "0", "1", "0", "0">>

-----------------------------------------------------------------------------
(* routes/booking.js: the synchronous part of POST /api/booking *)

ErrRequired == "All required fields must be filled."
ErrDuration == "Invalid duration."
ErrService == "Invalid service."
ErrEmail == "Invalid email address."
ErrPhone == "Invalid phone number."
ErrStart == "Invalid start time."
ErrPast == "Please choose a future time."
ErrTooFar == "Selected date is too far in the future."
ErrWeekend == "Weekends are not available."
ErrHours == "Selected time is outside business hours."
ErrBlackout == "Selected date is not available."
ErrConflict == "That slot is already booked. Choose another time."
ErrServer == "Server error"
Accepted == "accepted"

\* isWithinHours with endMinutes < close
isWithinHoursStrictClose(c, start, end) ==
    LET startMinutes == getHours(start) * 60 + getMinutes(start)
        endMinutes == getHours(end) * 60 + getMinutes(end)
    IN  startMinutes >= c.startHour * 60 /\ endMinutes < c.endHour * 60

isWithinHours(c, start, end) ==
    LET startMinutes == getHours(start) * 60 + getMinutes(start)
        endMinutes == getHours(end) * 60 + getMinutes(end)
        open == c.startHour * 60
        close == c.endHour * 60
    IN  startMinutes >= open /\ endMinutes <= close

\* isWeekend without day === 6
isWeekendSundayOnly(t) == getDay(t) = 0

isWeekend(t) == getDay(t) = 0 \/ getDay(t) = 6

EndOf(r) == r.startAt.t + r.durationMinutes

\* Validate with start < now in place of start <= now
ValidatePastExclusive(c, r, clock) ==
    LET start == r.startAt.t
        end == EndOf(r)
        latest == clock + c.daysAhead * MinutesPerDay
    IN  IF \/ r.name = ""
           \/ r.email = <<>>
           \/ r.phone = <<>>
           \/ r.service = ""
           \/ r.durationMinutes = 0
           \/ r.startAt.kind = "missing"
        THEN ErrRequired
        ELSE IF r.durationMinutes \notin ALLOWED_DURATIONS THEN ErrDuration
        ELSE IF r.service \notin ALLOWED_SERVICES THEN ErrService
        ELSE IF ~emailRegexTest(trim(r.email)) THEN ErrEmail
        ELSE IF ~phoneRegexTest(trim(r.phone)) THEN ErrPhone
        ELSE IF r.startAt.kind = "NaN" THEN ErrStart
        ELSE IF start < clock THEN ErrPast
        ELSE IF start > latest THEN ErrTooFar
        ELSE IF ~c.allowWeekends /\ isWeekend(start) THEN ErrWeekend
        ELSE IF ~isWithinHours(c, start, end) THEN ErrHours
        ELSE IF getDayKey(start) \in c.blackout THEN ErrBlackout
        ELSE Accepted

\* Validate with the comparisons with the clock ahead of the duration check
ValidateClockFirst(c, r, clock) ==
    LET start == r.startAt.t
        end == EndOf(r)
        latest == clock + c.daysAhead * MinutesPerDay
    IN  IF \/ r.name = ""
           \/ r.email = <<>>
           \/ r.phone = <<>>
           \/ r.service = ""
           \/ r.durationMinutes = 0
           \/ r.startAt.kind = "missing"
        THEN ErrRequired
        ELSE IF r.startAt.kind = "NaN" THEN ErrStart
        ELSE IF start <= clock THEN ErrPast
        ELSE IF start > latest THEN ErrTooFar
        ELSE IF r.durationMinutes \notin ALLOWED_DURATIONS THEN ErrDuration
        ELSE IF r.service \notin ALLOWED_SERVICES THEN ErrService
        ELSE IF ~emailRegexTest(trim(r.email)) THEN ErrEmail
        ELSE IF ~phoneRegexTest(trim(r.phone)) THEN ErrPhone
        ELSE IF ~c.allowWeekends /\ isWeekend(start) THEN ErrWeekend
        ELSE IF ~isWithinHours(c, start, end) THEN ErrHours
        ELSE IF getDayKey(start) \in c.blackout THEN ErrBlackout
        ELSE Accepted

\* lines 88-139: the first failing check's message, or Accepted
Validate(c, r, clock) ==
    LET start == r.startAt.t
        end == EndOf(r)
        latest == clock + c.daysAhead * MinutesPerDay
    IN  IF \/ r.name = ""
           \/ r.email = <<>>
           \/ r.phone = <<>>
           \/ r.service = ""
           \/ r.durationMinutes = 0
           \/ r.startAt.kind = "missing"
        THEN ErrRequired
        ELSE IF r.durationMinutes \notin ALLOWED_DURATIONS THEN ErrDuration
        ELSE IF r.service \notin ALLOWED_SERVICES THEN ErrService
        ELSE IF ~emailRegexTest(trim(r.email)) THEN ErrEmail
        ELSE IF ~phoneRegexTest(trim(r.phone)) THEN ErrPhone
        ELSE IF r.startAt.kind = "NaN" THEN ErrStart
        ELSE IF start <= clock THEN ErrPast
        ELSE IF start > latest THEN ErrTooFar
        ELSE IF ~c.allowWeekends /\ isWeekend(start) THEN ErrWeekend
        ELSE IF ~isWithinHours(c, start, end) THEN ErrHours
        ELSE IF getDayKey(start) \in c.blackout THEN ErrBlackout
        ELSE Accepted

-----------------------------------------------------------------------------
(* Inputs *)

\* instants the clock is read at: Monday 09:00 and Tuesday 10:00
ClockTimes == {At(0, 9, 0), At(1, 10, 0)}

\* Tue 24 Dec, Fri 27 Dec, Sat 28 Dec, Thu 2 Jan, Tue 7 Jan
PolicyDays == {1, 4, 5, 10, 15}

PolicyTimes == {<<8, 45>>, <<10, 0>>, <<10, 1>>, <<17, 0>>, <<17, 30>>, <<23, 30>>}

PolicyStarts ==
    {Missing, NaN} \cup {Instant(At(d, hm[1], hm[2])) : d \in PolicyDays, hm \in PolicyTimes}

\* every request body the policy evaluation is run on
Requests ==
    [name : {"", "Ann"},
     email : {GoodEmail, BadEmail},
     phone : {GoodPhone, BadPhone},
     service : {"MERN", "Cooking"},
     durationMinutes : {0, 15, 20, 30, 60},
     startAt : PolicyStarts]

Slot(t, d) ==
    [name |-> "Ann", email |-> GoodEmail, phone |-> GoodPhone, service |-> "MERN",
     durationMinutes |-> d, startAt |-> Instant(t)]

\* the request bodies the concurrent handlers receive
HandlerRequests ==
    {Slot(At(1, 10, 0), 30), Slot(At(1, 10, 0), 15),
     Slot(At(1, 10, 45), 15), Slot(At(1, 10, 44), 15),
     Slot(At(1, 23, 30), 60),
     Slot(At(10, 10, 0), 30),
     Slot(At(5, 10, 0), 30), Slot(At(5, 8, 45), 30),
     Slot(At(1, 10, 0), 20)}

\* models/Booking.js:3-16 with the values of lines 154-163
NewBooking(id, r, clock) ==
    [id |-> id,
     name |-> r.name, email |-> trim(r.email), phone |-> trim(r.phone),
     service |-> r.service, durationMinutes |-> r.durationMinutes,
     startAt |-> r.startAt.t, endAt |-> EndOf(r),
     status |-> "New", paymentStatus |-> "Unpaid", adminNote |-> "",
     createdAt |-> clock]

\* a booking taken before the server started: Tuesday 10:00-10:30
SeedBooking == NewBooking(1, Slot(At(1, 10, 0), 30), 0)

NoRequest == [name |-> "", email |-> <<>>, phone |-> <<>>, service |-> "",
              durationMinutes |-> 0, startAt |-> Missing]

NoResponse == [status |-> 0, error |-> ""]

-----------------------------------------------------------------------------
(* The notifier, email.js *)

\* sendEmail without the check of getTransport() for null
sendEmailAlways(c) == 1

\* email.js:18-24: the number of messages handed to the transport by a call
\* that resolves (0 when getTransport() is null and the call returns false)
sendEmail(c) == IF c.smtp THEN 1 ELSE 0

-----------------------------------------------------------------------------
(* The admin session, server.js:114-188 *)

NoToken == [kind |-> "none", user |-> "", exp |-> 0, sig |-> ""]

\* an admin_session cookie: the payload {user, exp} and how its signature
\* compares with the HMAC of the body ("ok", "wrong" of the same length,
\* "short" of another length)
Token(user, exp, sig) == [kind |-> "token", user |-> user, exp |-> exp, sig |-> sig]

Null == [kind |-> "null"]

Thrown == [kind |-> "thrown"]

Payload(token) == [kind |-> "payload", user |-> token.user, exp |-> token.exp]

\* verifyToken without Date.now() > payload.exp
verifyTokenNoExpiry(token, clock) ==
    IF token.kind = "none" THEN Null
    ELSE IF token.sig = "short" THEN Thrown
    ELSE IF token.sig # "ok" THEN Null
    ELSE IF token.exp = 0 THEN Null
    ELSE Payload(token)

\* server.js:128-137; crypto.timingSafeEqual throws on buffers of different
\* lengths
verifyToken(token, clock) ==
    IF token.kind = "none" THEN Null
    ELSE IF token.sig = "short" THEN Thrown
    ELSE IF token.sig # "ok" THEN Null
    ELSE IF token.exp = 0 \/ clock > token.exp THEN Null
    ELSE Payload(token)

\* server.js:173-188: 0 for next(), else the status answered (500 from
\* Express when verifyToken throws)
adminAuth(user, token, clock) ==
    IF user = "" THEN 500
    ELSE LET payload == verifyToken(token, clock)
         IN  IF payload.kind = "thrown" THEN 500
             ELSE IF payload.kind = "payload" /\ payload.user = user THEN 0
             ELSE 404

\* the cookies the admin requests carry; a session lasts 8 hours (server.js:294)
SESSION_MINUTES == 60 * 8

AdminTokens ==
    {NoToken,
     Token("root", At(0, 9, 0) + SESSION_MINUTES, "ok"),
     Token("root", At(0, 9, 0), "ok"),
     Token("root", At(0, 8, 59), "ok"),
     Token("root", 0, "ok"),
     Token("root", At(0, 9, 0) + SESSION_MINUTES, "wrong"),
     Token("root", At(0, 9, 0) + SESSION_MINUTES, "short"),
     Token("eve", At(0, 9, 0) + SESSION_MINUTES, "ok")}

\* req.body of the admin form
AdminForms ==
    {[status |-> "In Progress", paymentStatus |-> "Paid", adminNote |-> "called"],
     [status |-> "Cancelled", paymentStatus |-> "Refunded", adminNote |-> ""]}

NoForm == [status |-> "", paymentStatus |-> "", adminNote |-> ""]

NoAdminRequest ==
    [pc |-> "idle", token |-> NoToken, at |-> 0, id |-> 0, form |-> NoForm, status |-> 0]

-----------------------------------------------------------------------------
(* GET /api/booking/availability, routes/booking.js:51-82 *)

ErrFromTo == "from and to are required."

ErrRange == "Invalid date range."

\* req.query.from / req.query.to: absent, not a date, or a YYYY-MM-DD day
NoParam == [kind |-> "missing", d |-> 0]

BadParam == [kind |-> "NaN", d |-> 0]

Day(d) == [kind |-> "day", d |-> d]

MS_PER_MINUTE == 60 * 1000

\* new Date(`${from}T00:00:00`) in milliseconds
startOfDay(p) == At(p.d, 0, 0) * MS_PER_MINUTE

\* new Date(`${to}T23:59:59.999`) in milliseconds
endOfDay(p) == At(p.d, 23, 59) * MS_PER_MINUTE + 59999

\* the filter with $gte on endAt
InRangeInclusive(b, start, end) ==
    b.startAt * MS_PER_MINUTE < end /\ b.endAt * MS_PER_MINUTE >= start

\* lines 65-68: { startAt: { $lt: end }, endAt: { $gt: start } }
InRange(b, start, end) ==
    b.startAt * MS_PER_MINUTE < end /\ b.endAt * MS_PER_MINUTE > start

\* a response entry that carries the requester's name as well
EntryWithName(b) == [startAt |-> b.startAt, endAt |-> b.endAt, name |-> b.name]

\* lines 72-77 after .select('startAt endAt'): one entry of the response
Entry(b) == [startAt |-> b.startAt, endAt |-> b.endAt]

\* the response list as a bag: each entry with the number of times it occurs
EntriesOf(found) ==
    [e \in {Entry(b) : b \in found} |-> Cardinality({b \in found : Entry(b) = e})]

NoAvail ==
    [pc |-> "idle", from |-> NoParam, to |-> NoParam, status |-> 0, error |-> "",
     body |-> <<>>, seen |-> {}]

-----------------------------------------------------------------------------
(* GET /client/verify, server.js:1144-1157, models/ClientLoginToken.js *)

NumVerifiers == 2

Verifiers == 1..NumVerifiers

ErrInvalidToken == "Invalid token"

ErrTokenExpired == "Token expired or invalid."

\* crypto.createHash('sha256').update(token).digest('hex')
sha256(token) == <<"sha256", token>>

\* server.js:1127: a link is good for 15 minutes
LINK_MINUTES == 15

\* server.js:1128: the record POST /client/login stores for a link sent at time t
IssuedToken(id, clientId, token, t) ==
    [id |-> id, clientId |-> clientId, tokenHash |-> sha256(token),
     expiresAt |-> t + LINK_MINUTES, used |-> FALSE]

NoRecord == [id |-> 0, clientId |-> "", tokenHash |-> <<>>, expiresAt |-> 0, used |-> FALSE]

NoVerify ==
    [pc |-> "idle", token |-> "", record |-> NoRecord, at |-> 0, status |-> 0,
     error |-> "", cookie |-> ""]

\* the booking page's script, server.js:2020-2185
SLOT_STEP_MIN == 15

\* the config the script starts with, server.js:2031-2038
PageDefaults ==
    [daysAhead |-> 14, startHour |-> 10, endHour |-> 18, bufferMinutes |-> 15,
     allowWeekends |-> FALSE, blackoutDates |-> {}]

NoSlot == [start |-> 0, end |-> 0, duration |-> 0]

NoPage ==
    [pc |-> "idle", config |-> PageDefaults, today |-> 0, availability |-> {},
     seen |-> {}, slot |-> NoSlot, taken |-> FALSE]

\* POST /admin/login, server.js:265-299
LOGIN_WINDOW_MS == 10 * 60 * 1000

LOGIN_MAX == 5

LimitIps == {"10.0.0.1", "10.0.0.2"}

\* a request: the addresses of X-Forwarded-For, the socket's address, the
\* posted credentials
LoginRequest(forwarded, remote, user, pass) ==
    [forwarded |-> forwarded, remote |-> remote, user |-> user, pass |-> pass]

\* server.js:58-64: the first address of X-Forwarded-For, else the socket's
getClientIp(r) == IF r.forwarded # <<>> THEN Head(r.forwarded) ELSE r.remote

\* process.env.ADMIN_PASS, set whenever ADMIN_USER is
ADMIN_PASS == "secret"

NoAdminLogin ==
    [ip |-> "", status |-> 0, compared |-> FALSE, correct |-> FALSE, count |-> 0,
     cookie |-> NoToken]

\* the client portal, server.js:1405-1507 with models/Project.js
Milestone(approved, by, at) == [approved |-> approved, approvedBy |-> by, approvedAt |-> at]

Contract(status, at) == [status |-> status, signedAt |-> at]

\* a project of client c1 with two milestones and one agreement, a project
\* of client c2 with one milestone and one agreement
InitialProjects ==
    [p \in {1, 2} |->
        IF p = 1
        THEN [clientId |-> "c1",
              milestones |-> <<Milestone(FALSE, "", 0), Milestone(FALSE, "", 0)>>,
              contracts |-> <<Contract("Pending", 0)>>,
              feedback |-> <<>>, files |-> <<>>]
        ELSE [clientId |-> "c2",
              milestones |-> <<Milestone(FALSE, "", 0)>>,
              contracts |-> <<Contract("Pending", 0)>>,
              feedback |-> <<>>, files |-> <<>>]]

\* req.params.index: Number() gives an integer, NaN or a fraction
IntIndex(n) == [kind |-> "int", n |-> n]

NaNIndex == [kind |-> "NaN", n |-> 0]

FractionIndex == [kind |-> "fraction", n |-> 0]

NoPortal ==
    [pc |-> "idle", client |-> "", kind |-> "", id |-> 0, index |-> NaNIndex,
     text |-> "", status |-> 0, to |-> ""]

\* POST /client/login, server.js:1117-1142, run in two worlds whose Client
\* collections differ in one record
Worlds == {1, 2}

MsgIfExists == "If this email exists, a login link was sent."

MsgNotConfigured == "Email system is not configured."

MsgLinkSent == "Login link sent. Check your email."

NoLogin == [pc |-> "idle", email |-> "", status |-> 0, body |-> "", issued |-> {}]

InitSite ==
    /\ avail = NoAvail
    /\ clients = [w \in Worlds |-> {}]
    /\ login = [w \in Worlds |-> NoLogin]
    /\ projects = InitialProjects
    /\ portal = NoPortal
    /\ loginBuckets = <<>>
    /\ adminLogin = NoAdminLogin
    /\ reached = [ip \in LimitIps |-> 0]
    /\ page = NoPage
    /\ loginTokens = {}
    /\ ver = [v \in Verifiers |-> NoVerify]
    /\ slsVerdicts = <<>>

-----------------------------------------------------------------------------
(* State after start-up *)

InitHandlers ==
    /\ pc = [h \in Handlers |-> "idle"]
    /\ req = [h \in Handlers |-> NoRequest]
    /\ resp = [h \in Handlers |-> NoResponse]
    /\ created = [h \in Handlers |-> 0]
    /\ seen = [h \in Handlers |-> {}]
    /\ mails = [h \in Handlers |-> [calls |-> 0, sent |-> 0]]

\* the server with the handlers, over an empty collection or one that holds a
\* booking already
Init ==
    /\ cfg \in Configs
    /\ now = At(0, 9, 0)
    /\ bookings \in {{}, {SeedBooking}}
    /\ InitHandlers
    /\ cand = NoRequest
    /\ verdicts = <<>>
    /\ adminUser = "root"
    /\ adm = NoAdminRequest
    /\ InitSite

-----------------------------------------------------------------------------
(* POST /api/booking, one action per stretch of code between two awaits *)

Respond(h, status, error) ==
    /\ pc' = [pc EXCEPT ![h] = "done"]
    /\ resp' = [resp EXCEPT ![h] = [status |-> status, error |-> error]]

\* lines 84-143: destructure the body, validate, apply the policy, issue findOne
\* (handlers are numbered in the order their requests arrive)
Submit(h, r) ==
    /\ pc[h] = "idle"
    /\ \A g \in Handlers : g < h => pc[g] # "idle"
    /\ req' = [req EXCEPT ![h] = r]
    /\ IF Validate(cfg, r, now) # Accepted
       THEN Respond(h, 400, Validate(cfg, r, now))
       ELSE pc' = [pc EXCEPT ![h] = "findOne"] /\ UNCHANGED resp
    /\ UNCHANGED <<cfg, now, bookings, created, seen, cand, verdicts, mails, adminUser, adm, siteVars>>

\* the filter on the unpadded candidate
ProbeHitsNoBuffer(c, b, start, end) == b.startAt < end /\ b.endAt > start

\* the filter with $lte / $gte
ProbeHitsInclusive(c, b, start, end) ==
    b.startAt <= end + c.bufferMin /\ b.endAt >= start - c.bufferMin

\* the filter with its startAt half only
ProbeHitsEndOnly(c, b, start, end) == b.startAt < end + c.bufferMin

\* lines 141-148: the findOne filter { startAt < endBuffered, endAt > startBuffered }
ProbeHits(c, b, start, end) ==
    b.startAt < end + c.bufferMin /\ b.endAt > start - c.bufferMin

\* findOne that stores the candidate and then answers 409
FindOneStoresAnyway(h) ==
    /\ pc[h] = "findOne"
    /\ seen' = [seen EXCEPT ![h] = {b.id : b \in bookings}]
    /\ IF \E b \in bookings : ProbeHits(cfg, b, req[h].startAt.t, EndOf(req[h]))
       THEN /\ Respond(h, 409, ErrConflict)
            /\ bookings' = bookings \cup
                   {NewBooking(Cardinality(bookings) + 1, req[h], now)}
       ELSE pc' = [pc EXCEPT ![h] = "create"] /\ UNCHANGED <<resp, bookings>>
    /\ UNCHANGED <<cfg, now, req, created, cand, verdicts, mails, adminUser, adm, siteVars>>

\* lines 145-152: the store answers findOne
FindOne(h) ==
    /\ pc[h] = "findOne"
    /\ seen' = [seen EXCEPT ![h] = {b.id : b \in bookings}]
    /\ IF \E b \in bookings : ProbeHits(cfg, b, req[h].startAt.t, EndOf(req[h]))
       THEN Respond(h, 409, ErrConflict)
       ELSE pc' = [pc EXCEPT ![h] = "create"] /\ UNCHANGED resp
    /\ UNCHANGED <<cfg, now, bookings, req, created, cand, verdicts, mails, adminUser, adm, siteVars>>

\* lines 154-165: the store answers Booking.create
Create(h) ==
    /\ pc[h] = "create"
    /\ LET id == Cardinality(bookings) + 1
       IN  /\ bookings' = bookings \cup {NewBooking(id, req[h], now)}
           /\ created' = [created EXCEPT ![h] = id]
    /\ pc' = [pc EXCEPT ![h] = IF cfg.notify THEN "notifyOperator" ELSE "notifyRequester"]
    /\ UNCHANGED <<cfg, now, req, resp, seen, cand, verdicts, mails, adminUser, adm, siteVars>>

\* a catch that answers 201
StoreFailsSwallowed(h) ==
    /\ pc[h] \in {"findOne", "create"}
    /\ Respond(h, 201, "")
    /\ UNCHANGED <<cfg, now, bookings, req, created, seen, cand, verdicts, mails, adminUser, adm, siteVars>>

\* lines 145-148, 154-163, 181-184: findOne or create rejects, the catch answers 500
StoreFails(h) ==
    /\ pc[h] \in {"findOne", "create"}
    /\ Respond(h, 500, ErrServer)
    /\ UNCHANGED <<cfg, now, bookings, req, created, seen, cand, verdicts, mails, adminUser, adm, siteVars>>

\* lines 168-180 with email.js:18-24: sendEmail resolves (false when SMTP is not set)
EmailReturns(h) ==
    /\ \/ /\ pc[h] = "notifyOperator"
          /\ pc' = [pc EXCEPT ![h] = "notifyRequester"]
          /\ UNCHANGED resp
       \/ /\ pc[h] = "notifyRequester"
          /\ Respond(h, 201, "")
    /\ mails' = [mails EXCEPT ![h] = [calls |-> @.calls + 1,
                                      sent |-> @.sent + sendEmail(cfg)]]
    /\ UNCHANGED <<cfg, now, bookings, req, created, seen, cand, verdicts, adminUser, adm, siteVars>>

\* email.js:22 rejects (transport.sendMail), lines 181-184 answer 500
EmailThrows(h) ==
    /\ pc[h] \in {"notifyOperator", "notifyRequester"}
    /\ cfg.smtp
    /\ Respond(h, 500, ErrServer)
    /\ mails' = [mails EXCEPT ![h] = [@ EXCEPT !.calls = @ + 1]]
    /\ UNCHANGED <<cfg, now, bookings, req, created, seen, cand, verdicts, adminUser, adm, siteVars>>

\* time passes
Tick ==
    /\ \E t \in ClockTimes : t > now /\ now' = t
    /\ UNCHANGED <<cfg, bookings, pc, req, resp, created, seen, cand, verdicts, mails, adminUser, adm, siteVars>>

Next ==
    \/ \E h \in Handlers : FindOne(h)
    \/ \E h \in Handlers : Create(h)
    \/ \E h \in Handlers : EmailReturns(h)
    \/ \E h \in Handlers : StoreFails(h)
    \/ \E h \in Handlers : EmailThrows(h)
    \/ \E h \in Handlers : \E r \in HandlerRequests : Submit(h, r)

\* concurrent POST /api/booking requests against one collection; the requests
\* of one run arrive within the same minute of the clock
Spec == Init /\ [][Next]_vars

-----------------------------------------------------------------------------
(* The same route when each request is answered before the next arrives *)

SubmitSeq(h, r) ==
    /\ \A g \in Handlers : pc[g] \in {"idle", "done"}
    /\ Submit(h, r)

NextSeq ==
    \/ \E h \in Handlers : FindOne(h)
    \/ \E h \in Handlers : Create(h)
    \/ \E h \in Handlers : EmailReturns(h)
    \/ \E h \in Handlers : StoreFails(h)
    \/ \E h \in Handlers : EmailThrows(h)
    \/ \E h \in Handlers : \E r \in HandlerRequests : SubmitSeq(h, r)

SpecSeq == Init /\ [][NextSeq]_vars

-----------------------------------------------------------------------------
(* The validation and policy checks of lines 88-139 as a function of the   *)
(* request body, the configuration and the clock                           *)

InitPolicy ==
    /\ cfg \in Configs
    /\ now \in ClockTimes
    /\ bookings = {}
    /\ InitHandlers
    /\ cand \in Requests
    /\ verdicts = <<>>
    /\ adminUser = "root"
    /\ adm = NoAdminRequest
    /\ InitSite

\* lines 86-139 run on cand at the current time
Evaluate ==
    /\ Len(verdicts) < MaxEvals
    /\ verdicts' = Append(verdicts, [at |-> now, error |-> Validate(cfg, cand, now)])
    /\ UNCHANGED <<cfg, now, bookings, pc, req, resp, created, seen, cand, mails, adminUser, adm, siteVars>>

NextPolicy == Evaluate \/ Tick

SpecPolicy == InitPolicy /\ [][NextPolicy]_vars

-----------------------------------------------------------------------------
(* POST /admin/bookings/:id, server.js:839-851, next to the booking route   *)

\* the _ids an admin request may name: of no booking, of the seeded one, of
\* the one stored meanwhile
BookingIds == {0, 1, 2}

\* the booking request that runs while the admin works
AdminRunHandlers == {1}

AllButAdm == <<cfg, now, bookings, pc, req, resp, created, seen, cand, verdicts,
               mails, adminUser, siteVars>>

\* server.js:839 with adminAuth (173-188): answer 404/500, or go on to the
\* handler, which destructures the form and issues updateOne
AdminPost(token, id, form) ==
    /\ adm.pc = "idle"
    /\ LET outcome == adminAuth(adminUser, token, now)
       IN  adm' = IF outcome = 0
                  THEN [pc |-> "updateOne", token |-> token, at |-> now,
                        id |-> id, form |-> form, status |-> 0]
                  ELSE [NoAdminRequest EXCEPT !.status = outcome]
    /\ UNCHANGED AllButAdm

\* server.js:844: { $set: { status, adminNote, paymentStatus } }; update
\* validators are off, the schema's enum is not applied
SetFields(b, form) ==
    [b EXCEPT !.status = form.status,
              !.adminNote = form.adminNote,
              !.paymentStatus = form.paymentStatus]

\* server.js:842-846: the store answers updateOne({ _id }), the handler redirects
UpdateOne ==
    /\ adm.pc = "updateOne"
    /\ bookings' = {IF b.id = adm.id THEN SetFields(b, adm.form) ELSE b : b \in bookings}
    /\ adm' = [NoAdminRequest EXCEPT !.status = 302]
    /\ UNCHANGED <<cfg, now, pc, req, resp, created, seen, cand, verdicts, mails, adminUser,
                   siteVars>>

\* server.js:847-850: updateOne rejects, the catch answers 500
UpdateFails ==
    /\ adm.pc = "updateOne"
    /\ adm' = [NoAdminRequest EXCEPT !.status = 500]
    /\ UNCHANGED AllButAdm

\* the bodies the booking route receives while the admin works: the seeded
\* slot again and a free one
AdminRunRequests == {Slot(At(1, 10, 0), 30), Slot(At(1, 11, 30), 30)}

InitAdmin ==
    /\ cfg = CfgScenario
    /\ now = At(0, 9, 0)
    /\ bookings = {SeedBooking}
    /\ InitHandlers
    /\ cand = NoRequest
    /\ verdicts = <<>>
    /\ adminUser \in {"", "root"}
    /\ adm = NoAdminRequest
    /\ InitSite

NextAdmin ==
    \/ \E token \in AdminTokens : \E id \in BookingIds : \E form \in AdminForms :
           AdminPost(token, id, form)
    \/ UpdateOne
    \/ UpdateFails
    \/ Tick
    \/ \E h \in AdminRunHandlers : FindOne(h)
    \/ \E h \in AdminRunHandlers : Create(h)
    \/ \E h \in AdminRunHandlers : EmailReturns(h)
    \/ \E h \in AdminRunHandlers : StoreFails(h)
    \/ \E h \in AdminRunHandlers : EmailThrows(h)
    \/ \E h \in AdminRunHandlers : \E r \in AdminRunRequests : Submit(h, r)

\* admin requests, one at a time, interleaved with booking requests and the clock
SpecAdmin == InitAdmin /\ [][NextAdmin]_vars

-----------------------------------------------------------------------------
(* The availability route beside the booking route *)

AllButAvail == <<cfg, now, bookings, pc, req, resp, created, seen, cand, verdicts,
                 mails, adminUser, adm, loginTokens, ver, slsVerdicts, clients, login,
                 projects, portal, loginBuckets, adminLogin, reached, page>>

\* lines 53-63: read from and to, answer 400 or issue Booking.find
AvailGet(from, to) ==
    /\ avail.pc = "idle"
    /\ avail' =
          IF from.kind = "missing" \/ to.kind = "missing"
          THEN [NoAvail EXCEPT !.from = from, !.to = to, !.status = 400,
                               !.error = ErrFromTo]
          ELSE IF from.kind = "NaN" \/ to.kind = "NaN"
          THEN [NoAvail EXCEPT !.from = from, !.to = to, !.status = 400,
                               !.error = ErrRange]
          ELSE [NoAvail EXCEPT !.pc = "find", !.from = from, !.to = to]
    /\ UNCHANGED AllButAvail

\* lines 65-77: the store answers Booking.find, the handler maps the result
AvailFind ==
    /\ avail.pc = "find"
    /\ LET found == {b \in bookings :
                        InRange(b, startOfDay(avail.from), endOfDay(avail.to))}
       IN  avail' = [avail EXCEPT !.pc = "idle", !.status = 200,
                                  !.body = EntriesOf(found),
                                  !.seen = {b.id : b \in bookings}]
    /\ UNCHANGED AllButAvail

\* lines 78-81: Booking.find rejects, the catch answers 500
AvailFails ==
    /\ avail.pc = "find"
    /\ avail' = [avail EXCEPT !.pc = "idle", !.status = 500, !.error = ErrServer]
    /\ UNCHANGED AllButAvail

AvailParams == {NoParam, BadParam, Day(1), Day(2), Day(3)}

\* bookings the route has stored under CfgWeekends: Tuesday 10:00-10:30,
\* Tuesday 23:30-24:00, Wednesday 23:30-00:30, Friday 17:30-18:00
StoredSamples ==
    <<SeedBooking,
      NewBooking(2, Slot(At(1, 23, 30), 30), 0),
      NewBooking(3, Slot(At(2, 23, 30), 60), 0),
      NewBooking(4, Slot(At(4, 17, 30), 30), 0)>>

\* the booking request that runs while availability is read
AvailRunHandlers == {1}

InitAvail ==
    /\ cfg = CfgWeekends
    /\ now = At(0, 9, 0)
    /\ \E n \in 0..Len(StoredSamples) : bookings = {StoredSamples[i] : i \in 1..n}
    /\ InitHandlers
    /\ cand = NoRequest
    /\ verdicts = <<>>
    /\ adminUser = "root"
    /\ adm = NoAdminRequest
    /\ InitSite

NextAvail ==
    \/ \E from \in AvailParams : \E to \in AvailParams : AvailGet(from, to)
    \/ AvailFind
    \/ AvailFails
    \/ \E h \in AvailRunHandlers : FindOne(h)
    \/ \E h \in AvailRunHandlers : Create(h)
    \/ \E h \in AvailRunHandlers : EmailReturns(h)
    \/ \E h \in AvailRunHandlers : StoreFails(h)
    \/ \E h \in AvailRunHandlers : EmailThrows(h)
    \/ \E h \in AvailRunHandlers : \E r \in AdminRunRequests : Submit(h, r)

SpecAvail == InitAvail /\ [][NextAvail]_vars

-----------------------------------------------------------------------------
(* Concurrent GET /client/verify requests *)

AllButVerify == <<cfg, bookings, pc, req, resp, created, seen, cand, verdicts,
                  mails, adminUser, adm, avail, slsVerdicts, clients, login,
                 projects, portal, loginBuckets, adminLogin, reached, page>>

\* server.js:1145-1148: read the token, answer 400 or issue findOne({ tokenHash })
VerifyGet(v, token) ==
    /\ ver[v].pc = "idle"
    /\ ver' = [ver EXCEPT ![v] =
                  IF token = ""
                  THEN [NoVerify EXCEPT !.pc = "done", !.status = 400,
                                        !.error = ErrInvalidToken]
                  ELSE [NoVerify EXCEPT !.pc = "findOne", !.token = token]]
    /\ UNCHANGED <<AllButVerify, now, loginTokens>>

\* server.js:1149: !record || record.used || record.expiresAt < new Date()
RejectsRecord(record, clock) ==
    record = NoRecord \/ record.used \/ record.expiresAt < clock

\* server.js:1148-1151: the store answers findOne, the handler checks the record
VerifyFindOne(v) ==
    /\ ver[v].pc = "findOne"
    /\ \E record \in {r \in loginTokens : r.tokenHash = sha256(ver[v].token)}
                    \cup {r \in {NoRecord} :
                            \A t \in loginTokens : t.tokenHash # sha256(ver[v].token)} :
           ver' = [ver EXCEPT ![v] =
                      IF RejectsRecord(record, now)
                      THEN [@ EXCEPT !.pc = "done", !.record = record, !.at = now,
                                     !.status = 400, !.error = ErrTokenExpired]
                      ELSE [@ EXCEPT !.pc = "updateOne", !.record = record, !.at = now]]
    /\ UNCHANGED <<AllButVerify, now, loginTokens>>

\* server.js:1152-1156: the store answers updateOne, the handler sets the
\* client_session cookie and redirects
VerifyUpdateOne(v) ==
    /\ ver[v].pc = "updateOne"
    /\ loginTokens' = {IF r.id = ver[v].record.id THEN [r EXCEPT !.used = TRUE] ELSE r :
                          r \in loginTokens}
    /\ ver' = [ver EXCEPT ![v] = [@ EXCEPT !.pc = "done", !.status = 302,
                                          !.cookie = ver[v].record.clientId]]
    /\ UNCHANGED <<AllButVerify, now>>

\* models/ClientLoginToken.js:11: the TTL index removes records past expiresAt
TtlSweep ==
    /\ \E r \in loginTokens : r.expiresAt < now /\ loginTokens' = loginTokens \ {r}
    /\ UNCHANGED <<AllButVerify, now, ver>>

\* the clock around the expiry of a link sent Monday 09:00
VerifyTimes == {At(0, 9, 0), At(0, 9, 15), At(0, 9, 16)}

TickVerify ==
    /\ \E t \in VerifyTimes : t > now /\ now' = t
    /\ UNCHANGED <<AllButVerify, loginTokens, ver>>

\* the token query parameters: none, the link sent at 09:00, a link sent at
\* 08:00, one never issued
VerifyTokens == {"", "t1", "t0", "tx"}

InitVerify ==
    /\ cfg = CfgScenario
    /\ now = At(0, 9, 0)
    /\ bookings = {}
    /\ InitHandlers
    /\ cand = NoRequest
    /\ verdicts = <<>>
    /\ adminUser = "root"
    /\ adm = NoAdminRequest
    /\ avail = NoAvail
    /\ loginTokens = {IssuedToken(1, "c1", "t1", At(0, 9, 0)),
                      IssuedToken(2, "c2", "t0", At(0, 8, 0))}
    /\ ver = [v \in Verifiers |-> NoVerify]
    /\ slsVerdicts = <<>>
    /\ clients = [w \in Worlds |-> {}]
    /\ login = [w \in Worlds |-> NoLogin]
    /\ projects = InitialProjects
    /\ portal = NoPortal
    /\ loginBuckets = <<>>
    /\ adminLogin = NoAdminLogin
    /\ reached = [ip \in LimitIps |-> 0]
    /\ page = NoPage

NextVerify ==
    \/ \E v \in Verifiers : \E token \in VerifyTokens : VerifyGet(v, token)
    \/ \E v \in Verifiers : VerifyFindOne(v)
    \/ \E v \in Verifiers : VerifyUpdateOne(v)
    \/ TtlSweep
    \/ TickVerify

SpecVerify == InitVerify /\ [][NextVerify]_vars

-----------------------------------------------------------------------------
(* The serverless handler's POST /api/booking, unnamed/part_002:382-533,    *)
(* run on the request and the clock the Express route is run on             *)

SlsRequired == "Missing required fields"

SlsEmail == "Invalid email address"

SlsPhone == "Invalid phone number"

SlsDuration == "Invalid duration"

SlsService == "Invalid service"

SlsStart == "Invalid start time"

SlsPast == "Please choose a future time"

SlsTooFar == "Selected date is too far in the future"

SlsWeekend == "Weekends are not available"

SlsHours == "Selected time is outside business hours"

SlsBlackout == "Selected date is not available"

\* part_002:385-470: the first failing check's message, or Accepted; the
\* helpers of part_002:225-248 are those of routes/booking.js
ValidateServerless(c, r, clock) ==
    LET start == r.startAt.t
        end == EndOf(r)
        latest == clock + c.daysAhead * MinutesPerDay
    IN  IF \/ r.name = ""
           \/ r.email = <<>>
           \/ r.phone = <<>>
           \/ r.startAt.kind = "missing"
           \/ r.durationMinutes = 0
        THEN SlsRequired
        ELSE IF ~emailRegexTest(trim(r.email)) THEN SlsEmail
        ELSE IF ~phoneRegexTest(trim(r.phone)) THEN SlsPhone
        ELSE IF r.durationMinutes \notin ALLOWED_DURATIONS THEN SlsDuration
        ELSE IF r.service \notin ALLOWED_SERVICES THEN SlsService
        ELSE IF r.startAt.kind = "NaN" THEN SlsStart
        ELSE IF start <= clock THEN SlsPast
        ELSE IF start > latest THEN SlsTooFar
        ELSE IF ~c.allowWeekends /\ isWeekend(start) THEN SlsWeekend
        ELSE IF ~isWithinHours(c, start, end) THEN SlsHours
        ELSE IF getDayKey(start) \in c.blackout THEN SlsBlackout
        ELSE Accepted

\* both handlers run on cand at the current time
EvaluateBoth ==
    /\ Len(verdicts) < MaxEvals
    /\ verdicts' = Append(verdicts, [at |-> now, error |-> Validate(cfg, cand, now)])
    /\ slsVerdicts' =
          Append(slsVerdicts, [at |-> now, error |-> ValidateServerless(cfg, cand, now)])
    /\ UNCHANGED <<cfg, now, bookings, pc, req, resp, created, seen, cand, mails,
                   adminUser, adm, avail, loginTokens, ver, clients, login,
                 projects, portal, loginBuckets, adminLogin, reached, page>>

NextEquiv == EvaluateBoth \/ Tick

SpecEquiv == InitPolicy /\ [][NextEquiv]_vars

-----------------------------------------------------------------------------
(* POST /client/login sent to two servers that differ in one client record *)

AllButLogin == <<cfg, now, bookings, pc, req, resp, created, seen, cand, verdicts,
                 mails, adminUser, adm, avail, loginTokens, ver, slsVerdicts, clients,
                 projects, portal, loginBuckets, adminLogin, reached, page>>

\* server.js:1118-1120: the same form arrives in both worlds; trim the email,
\* issue Client.findOne
LoginPost(email) ==
    /\ \A w \in Worlds : login[w].pc = "idle"
    /\ login' = [w \in Worlds |-> [NoLogin EXCEPT !.pc = "findClient", !.email = email]]
    /\ UNCHANGED AllButLogin

\* server.js:1120-1125: the store answers Client.findOne
LoginFindClient(w) ==
    /\ login[w].pc = "findClient"
    /\ login' = [login EXCEPT ![w] =
                    IF login[w].email \notin clients[w]
                    THEN [@ EXCEPT !.pc = "done", !.status = 200, !.body = MsgIfExists]
                    ELSE [@ EXCEPT !.pc = "createToken"]]
    /\ UNCHANGED AllButLogin

\* server.js:1125-1131: the store answers ClientLoginToken.create
LoginCreateToken(w) ==
    /\ login[w].pc = "createToken"
    /\ login' = [login EXCEPT ![w] =
                    [@ EXCEPT !.pc = "sendEmail",
                              !.issued = {IssuedToken(1, login[w].email, "t1", now)}]]
    /\ UNCHANGED AllButLogin

\* server.js:1132-1141: sendEmail resolves, true or false
LoginEmailReturns(w) ==
    /\ login[w].pc = "sendEmail"
    /\ login' = [login EXCEPT ![w] =
                    IF sendEmail(cfg) = 0
                    THEN [@ EXCEPT !.pc = "done", !.status = 500, !.body = MsgNotConfigured]
                    ELSE [@ EXCEPT !.pc = "done", !.status = 200, !.body = MsgLinkSent]]
    /\ UNCHANGED AllButLogin

\* email.js:22 rejects; the handler has no catch and sends nothing
LoginEmailThrows(w) ==
    /\ login[w].pc = "sendEmail"
    /\ cfg.smtp
    /\ login' = [login EXCEPT ![w] = [@ EXCEPT !.pc = "hung"]]
    /\ UNCHANGED AllButLogin

\* req.body.email: a registered client's, an unknown one's, none
LoginEmails == {"ann@x.io", "bob@x.io", ""}

InitLogin ==
    /\ cfg \in Configs
    /\ now \in ClockTimes
    /\ bookings = {}
    /\ InitHandlers
    /\ cand = NoRequest
    /\ verdicts = <<>>
    /\ adminUser = "root"
    /\ adm = NoAdminRequest
    /\ avail = NoAvail
    /\ loginTokens = {}
    /\ ver = [v \in Verifiers |-> NoVerify]
    /\ slsVerdicts = <<>>
    /\ clients \in {[w \in Worlds |-> IF w = 1 THEN {"ann@x.io"} ELSE {}],
                    [w \in Worlds |-> IF w = 1 THEN {"ann@x.io", "cy@x.io"}
                                               ELSE {"cy@x.io"}]}
    /\ login = [w \in Worlds |-> NoLogin]
    /\ projects = InitialProjects
    /\ portal = NoPortal
    /\ loginBuckets = <<>>
    /\ adminLogin = NoAdminLogin
    /\ reached = [ip \in LimitIps |-> 0]
    /\ page = NoPage

NextLogin ==
    \/ \E email \in LoginEmails : LoginPost(email)
    \/ \E w \in Worlds : LoginFindClient(w)
    \/ \E w \in Worlds : LoginCreateToken(w)
    \/ \E w \in Worlds : LoginEmailReturns(w)
    \/ \E w \in Worlds : LoginEmailThrows(w)

SpecLogin == InitLogin /\ [][NextLogin]_vars

-----------------------------------------------------------------------------
(* The client portal's POST routes, server.js:1405-1507 *)

MaxPushes == 1

AllButPortal == <<cfg, now, bookings, pc, req, resp, created, seen, cand, verdicts,
                  mails, adminUser, adm, avail, loginTokens, ver, slsVerdicts,
                  clients, login, loginBuckets, adminLogin, reached, page>>

\* the answer of every route of the portal: a redirect
Redirected(to) ==
    [portal EXCEPT !.pc = "idle", !.index = NaNIndex, !.text = "", !.status = 302, !.to = to]

\* server.js:162-171 and the synchronous head of each route: without a
\* session redirect to the login page; feedback and files with an empty
\* text redirect to /client; else the first store call is issued
PortalPost(client, kind, id, index, text) ==
    /\ portal.pc = "idle"
    /\ kind \in {"feedback", "files"} =>
           \A p \in DOMAIN projects :
               Len(projects[p].feedback) + Len(projects[p].files) < MaxPushes
    /\ LET request == [NoPortal EXCEPT !.client = client, !.kind = kind, !.id = id,
                                       !.index = index, !.text = text]
       IN  portal' =
              IF client = ""
              THEN [request EXCEPT !.index = NaNIndex, !.text = "", !.status = 302,
                                   !.to = "/client/login"]
              ELSE IF kind \in {"feedback", "files"} /\ text = ""
              THEN [request EXCEPT !.status = 302, !.to = "/client"]
              ELSE IF kind \in {"feedback", "files"}
              THEN [request EXCEPT !.pc = "findById"]
              ELSE [request EXCEPT !.pc = "findOne"]
    /\ UNCHANGED <<AllButPortal, projects>>

\* a filter on _id alone
MatchesIdOnly(p, id, client) == p = id

\* the filter { _id: req.params.id, clientId: req.clientId }
Matches(p, id, client) == p = id /\ projects[p].clientId = client

\* server.js:1463-1466, 1489-1492: Number(index) is not NaN, not negative and
\* below the length
IndexOk(index, length) ==
    index.kind # "NaN" /\ (index.kind = "int" => index.n >= 0 /\ index.n < length)

\* server.js:1459-1466, 1485-1492: the store answers Project.findOne; the
\* handler checks the project and the index
PortalFindOne ==
    /\ portal.pc = "findOne"
    /\ LET found == {p \in DOMAIN projects : Matches(p, portal.id, portal.client)}
           items(p) == IF portal.kind = "approve" THEN projects[p].milestones
                       ELSE projects[p].contracts
       IN  portal' =
              IF found = {} THEN Redirected("/client")
              ELSE IF \E p \in found : ~IndexOk(portal.index, Len(items(p)))
              THEN Redirected("/client")
              ELSE [portal EXCEPT !.pc = "findById"]
    /\ UNCHANGED <<AllButPortal, projects>>

\* server.js:1410, 1433, 1467, 1493: the store answers Client.findById; with
\* a fractional index project.milestones[index] is undefined and the
\* assignment throws
PortalFindById ==
    /\ portal.pc = "findById"
    /\ portal' =
          IF portal.kind \in {"feedback", "files"} THEN [portal EXCEPT !.pc = "updateOne"]
          ELSE IF portal.index.kind = "fraction" THEN [portal EXCEPT !.pc = "thrown"]
          ELSE [portal EXCEPT !.pc = "save"]
    /\ UNCHANGED <<AllButPortal, projects>>

\* server.js:1411-1414, 1434-1446: the store answers updateOne with $push
PortalUpdateOne ==
    /\ portal.pc = "updateOne"
    /\ projects' =
          [p \in DOMAIN projects |->
              IF ~Matches(p, portal.id, portal.client) THEN projects[p]
              ELSE IF portal.kind = "feedback"
              THEN [projects[p] EXCEPT !.feedback =
                        Append(@, [author |-> portal.client, message |-> portal.text])]
              ELSE [projects[p] EXCEPT !.files =
                        Append(@, [uploadedBy |-> portal.client, label |-> portal.text])]]
    /\ portal' = Redirected("/client")
    /\ UNCHANGED AllButPortal

\* server.js:1468-1472, 1494-1497: project.save() writes the fields assigned
\* on the loaded document
PortalSave ==
    /\ portal.pc = "save"
    /\ LET i == portal.index.n + 1
       IN  projects' =
              [projects EXCEPT ![portal.id] =
                  IF portal.kind = "approve"
                  THEN [@ EXCEPT !.milestones[i] = Milestone(TRUE, portal.client, now)]
                  ELSE [@ EXCEPT !.contracts[i] = Contract("Signed", now)]]
    /\ portal' = Redirected("/client")
    /\ UNCHANGED AllButPortal

\* an await rejects or the assignment throws: no route has a catch, nothing
\* is answered
PortalFails ==
    /\ portal.pc \in {"findOne", "findById", "updateOne", "save", "thrown"}
    /\ portal' = [portal EXCEPT !.pc = "idle", !.index = NaNIndex, !.text = "", !.status = 0]
    /\ UNCHANGED <<AllButPortal, projects>>

PortalClients == {"", "c1", "c2"}

PortalIds == {1, 2, 3}

PortalIndexes == {IntIndex(-1), IntIndex(0), IntIndex(1), IntIndex(2), NaNIndex, FractionIndex}

PortalTexts == {"", "hello"}

InitPortal ==
    /\ cfg = CfgDefault
    /\ now = At(0, 9, 0)
    /\ bookings = {}
    /\ InitHandlers
    /\ cand = NoRequest
    /\ verdicts = <<>>
    /\ adminUser = "root"
    /\ adm = NoAdminRequest
    /\ InitSite

NextPortal ==
    \/ \E client \in PortalClients : \E id \in PortalIds :
           \/ \E kind \in {"feedback", "files"} : \E text \in PortalTexts :
                  PortalPost(client, kind, id, NaNIndex, text)
           \/ \E kind \in {"approve", "confirm"} : \E index \in PortalIndexes :
                  PortalPost(client, kind, id, index, "")
    \/ PortalFindOne
    \/ PortalFindById
    \/ PortalUpdateOne
    \/ PortalSave
    \/ PortalFails

SpecPortal == InitPortal /\ [][NextPortal]_vars

-----------------------------------------------------------------------------
(* POST /admin/login behind its rate limit, server.js:265-299 *)

MaxOverLimit == 2

AllButLimit == <<cfg, bookings, pc, req, resp, created, seen, cand, verdicts,
                 mails, adminUser, adm, avail, loginTokens, ver, slsVerdicts,
                 clients, login, projects, portal, page>>

\* Date.now() in milliseconds
NowMs == now * MS_PER_MINUTE

\* server.js:271-276: the bucket of the IP after this request is counted
BucketAfter(ip, clock) ==
    LET bucket == IF ip \in DOMAIN loginBuckets THEN loginBuckets[ip]
                  ELSE [count |-> 0, resetAt |-> clock + LOGIN_WINDOW_MS]
        fresh == IF clock > bucket.resetAt
                 THEN [count |-> 0, resetAt |-> clock + LOGIN_WINDOW_MS]
                 ELSE bucket
    IN  [fresh EXCEPT !.count = @ + 1]

\* a limit that lets one more request through
isLoginRateLimitedAboveMax(ip, clock) == BucketAfter(ip, clock).count > LOGIN_MAX + 1

\* server.js:278
isLoginRateLimited(ip, clock) == BucketAfter(ip, clock).count > LOGIN_MAX

\* server.js:114-119, 294: the cookie of a successful login
signToken(user, clock) == Token(user, clock + SESSION_MINUTES, "ok")

\* server.js:281-299, the whole synchronous handler
AdminLoginPost(r) ==
    LET ip == getClientIp(r)
        after == BucketAfter(ip, NowMs)
        restarted == ip \in DOMAIN loginBuckets /\ NowMs > loginBuckets[ip].resetAt
        correct == r.user = adminUser /\ r.pass = ADMIN_PASS
    IN  /\ after.count <= LOGIN_MAX + MaxOverLimit
        /\ IF adminUser = ""
           THEN /\ adminLogin' = [NoAdminLogin EXCEPT !.ip = ip, !.status = 500]
                /\ UNCHANGED <<loginBuckets, reached>>
           ELSE /\ loginBuckets' = (ip :> after) @@ loginBuckets
                /\ IF isLoginRateLimited(ip, NowMs)
                   THEN /\ adminLogin' = [NoAdminLogin EXCEPT !.ip = ip, !.status = 429,
                                              !.correct = correct, !.count = after.count]
                        /\ reached' = [reached EXCEPT ![ip] = IF restarted THEN 0 ELSE @]
                   ELSE /\ adminLogin' =
                              [ip |-> ip, status |-> IF correct THEN 302 ELSE 401,
                               compared |-> TRUE, correct |-> correct, count |-> after.count,
                               cookie |-> IF correct THEN signToken(adminUser, now) ELSE NoToken]
                        /\ reached' = [reached EXCEPT ![ip] = IF restarted THEN 1 ELSE @ + 1]
        /\ UNCHANGED <<AllButLimit, now>>

LimitTimes == {At(0, 9, 0), At(0, 9, 5), At(0, 9, 10), At(0, 9, 11), At(0, 9, 15), At(0, 9, 21)}

TickLimit ==
    /\ \E t \in LimitTimes : t > now /\ now' = t
    /\ UNCHANGED <<AllButLimit, loginBuckets, adminLogin, reached>>

LoginRequests ==
    {LoginRequest(f, "10.0.0.1", "root", p) :
        f \in {<<>>, <<"10.0.0.2", "10.0.0.1">>}, p \in {"secret", "guess"}}

InitLimit ==
    /\ cfg = CfgDefault
    /\ now = At(0, 9, 0)
    /\ bookings = {}
    /\ InitHandlers
    /\ cand = NoRequest
    /\ verdicts = <<>>
    /\ adminUser \in {"", "root"}
    /\ adm = NoAdminRequest
    /\ InitSite

NextLimit ==
    \/ \E r \in LoginRequests : AdminLoginPost(r)
    \/ TickLimit

SpecLimit == InitLimit /\ [][NextLimit]_vars

-----------------------------------------------------------------------------
(* The booking page: loadAvailability, renderSlots, isSlotTaken,
   server.js:2051-2185, beside the stored bookings *)

AllButPage == <<cfg, now, pc, req, resp, created, seen, cand, verdicts,
                mails, adminUser, adm, avail, loginTokens, ver, slsVerdicts,
                clients, login, projects, portal, loginBuckets, adminLogin, reached>>

\* routes/booking.js:39-48: the body of GET /api/booking/config
ConfigJson(c) ==
    [daysAhead |-> c.daysAhead, startHour |-> c.startHour, endHour |-> c.endHour,
     bufferMinutes |-> c.bufferMin, allowWeekends |-> c.allowWeekends,
     blackoutDates |-> c.blackout]

\* server.js:2051-2072 buildDays: day i of the calendar and whether its
\* button is disabled
DayOf(p, i) == p.today + i

Disabled(p, d) ==
    \/ ~p.config.allowWeekends /\ isWeekend(At(d, 0, 0))
    \/ getDayKey(At(d, 0, 0)) \in p.config.blackoutDates

CalendarDays(p) == {DayOf(p, i) : i \in 0..(p.config.daysAhead - 1)}

\* server.js:2162-2168: the first day that is not disabled, else the first
\* day; the last day
FirstDay(p) ==
    LET open == {d \in CalendarDays(p) : ~Disabled(p, d)}
    IN  IF open = {} THEN p.today ELSE CHOOSE d \in open : \A e \in open : d <= e

LastDay(p) == DayOf(p, p.config.daysAhead - 1)

\* server.js:2153-2160: fetch('/api/booking/config') answers
PageLoadConfig ==
    /\ page.pc = "idle"
    /\ page' = [NoPage EXCEPT !.pc = "availability", !.config = ConfigJson(cfg),
                              !.today = DayIndex(now)]
    /\ UNCHANGED <<AllButPage, bookings>>

\* server.js:2169-2178: fetch of the availability from the first open day to
\* the last day answers (routes/booking.js:65-77), the calendar is rendered
PageLoadAvailability ==
    /\ page.pc = "availability"
    /\ LET found == {b \in bookings :
                        InRange(b, startOfDay(Day(FirstDay(page))),
                                   endOfDay(Day(LastDay(page))))}
       IN  page' = [page EXCEPT !.pc = "loaded",
                                !.availability = {Entry(b) : b \in found},
                                !.seen = {b.id : b \in bookings}]
    /\ UNCHANGED <<AllButPage, bookings>>

\* server.js:2123-2134 renderSlots: the slots listed for a day and a duration
SlotsOf(p, d, duration) ==
    {[start |-> At(d, hour, minute), end |-> At(d, hour, minute) + duration,
      duration |-> duration] :
        hour \in p.config.startHour..p.config.endHour,
        minute \in {m \in 0..59 : m % SLOT_STEP_MIN = 0}}

\* server.js:2128-2130: the slot is left out
PastClosing(p, s) ==
    \/ getHours(s.end) > p.config.endHour
    \/ getHours(s.end) = p.config.endHour /\ getMinutes(s.end) > 0

\* server.js:2075-2081
isSlotTaken(p, start, end) ==
    \E b \in p.availability :
        LET bufferMs == p.config.bufferMinutes * 60 * 1000
            bStart == b.startAt * MS_PER_MINUTE - bufferMs
            bEnd == b.endAt * MS_PER_MINUTE + bufferMs
        IN  bStart < end * MS_PER_MINUTE /\ bEnd > start * MS_PER_MINUTE

\* server.js:2101-2106, 2109-2150: a day button is clicked (or the first day
\* stays selected) and the button of one of its slots is rendered
PageRenderSlot(d, duration) ==
    /\ page.pc = "loaded"
    /\ d \in CalendarDays(page)
    /\ ~Disabled(page, d) \/ d = FirstDay(page)
    /\ \E s \in SlotsOf(page, d, duration) :
           /\ ~PastClosing(page, s)
           /\ page' = [page EXCEPT !.pc = "rendered", !.slot = s,
                                   !.taken = isSlotTaken(page, s.start, s.end)]
    /\ UNCHANGED <<AllButPage, bookings>>

\* a visitor opens the page again
PageReload ==
    /\ page.pc = "rendered"
    /\ page' = NoPage
    /\ UNCHANGED <<AllButPage, bookings>>

\* BOOKING_START_HOUR=0, BOOKING_END_HOUR=24, BOOKING_DAYS_AHEAD=2,
\* BOOKING_ALLOW_WEEKENDS=true
CfgAllDay ==
    [startHour |-> 0, endHour |-> 24,
     bufferMin |-> DEFAULT_BUFFER_MIN, daysAhead |-> 2,
     allowWeekends |-> TRUE, blackout |-> {},
     notify |-> FALSE, smtp |-> FALSE]

\* bookings other visitors make: Tuesday 10:00, Tuesday 17:30, Wednesday
\* 00:00, Friday 10:00
PageSamples ==
    <<Slot(At(1, 10, 0), 30), Slot(At(1, 17, 30), 30), Slot(At(2, 0, 0), 30),
      Slot(At(4, 10, 0), 60)>>

\* routes/booking.js:84-163 for another visitor, from validation to the
\* stored document
OtherStored(i) ==
    /\ Validate(cfg, PageSamples[i], now) = Accepted
    /\ ~\E b \in bookings :
           ProbeHits(cfg, b, PageSamples[i].startAt.t, EndOf(PageSamples[i]))
    /\ bookings' = bookings \cup {NewBooking(i, PageSamples[i], now)}
    /\ UNCHANGED <<AllButPage, page>>

PageDurations == {15, 60}

InitPage ==
    /\ cfg \in {CfgDefault, CfgAllDay}
    /\ now = At(0, 9, 0)
    /\ bookings = {}
    /\ InitHandlers
    /\ cand = NoRequest
    /\ verdicts = <<>>
    /\ adminUser = "root"
    /\ adm = NoAdminRequest
    /\ InitSite

NextPage ==
    \/ PageLoadConfig
    \/ PageLoadAvailability
    \/ \E d \in 0..DEFAULT_DAYS_AHEAD : \E duration \in PageDurations :
           PageRenderSlot(d, duration)
    \/ PageReload
    \/ \E i \in DOMAIN PageSamples : OtherStored(i)

SpecPage == InitPage /\ [][NextPage]_vars

-----------------------------------------------------------------------------
(* Vocabulary of the properties *)

Stored(h) == created[h] # 0

BookingOf(h) == CHOOSE b \in bookings : b.id = created[h]

BookingWithId(i) == CHOOSE b \in bookings : b.id = i

StartOf(h) == req[h].startAt.t

EndOfReq(h) == EndOf(req[h])

\* the request of h got past validation and policy (its store query was issued)
PassedPolicy(h) == pc[h] # "idle" /\ resp[h].status # 400

\* each submission's buffer-padded probe window intersects the other's interval
WindowsIntersect(h1, h2) ==
    /\ StartOf(h2) < EndOfReq(h1) + cfg.bufferMin
    /\ EndOfReq(h2) > StartOf(h1) - cfg.bufferMin
    /\ StartOf(h1) < EndOfReq(h2) + cfg.bufferMin
    /\ EndOfReq(h1) > StartOf(h2) - cfg.bufferMin

Succeeded(h) == pc[h] = "done" /\ resp[h].status = 201 /\ Stored(h)

-----------------------------------------------------------------------------
(* C1..C5: conflicts, concurrency, notification *)

\* C1: of two submissions that pass validation and policy and whose buffered
\* probe windows intersect each other's intervals, at most one ends with 201
\* and a stored booking, whatever the interleaving of findOne and create.
C1_AtMostOneOfTwoIntersecting ==
    \A h1 \in Handlers : \A h2 \in Handlers :
        (h1 # h2 /\ PassedPolicy(h1) /\ PassedPolicy(h2) /\ WindowsIntersect(h1, h2))
            => ~(Succeeded(h1) /\ Succeeded(h2))

\* the calendar was empty at the start, every handler received the same valid
\* slot and was answered without a store or notifier failure
AllSameSlotAnswered ==
    /\ \A b \in bookings : \E h \in Handlers : created[h] = b.id
    /\ \A h \in Handlers : pc[h] = "done" /\ resp[h].status \in {201, 409}
    /\ \A h \in Handlers : StartOf(h) = StartOf(1) /\ EndOfReq(h) = EndOfReq(1)

\* C2: N concurrent valid submissions for the same start and duration on an
\* empty calendar, no store or notifier failure: exactly one 201, N-1 times
\* 409, exactly one booking stored for the slot.
C2_ExactlyOneOfSameSlot ==
    AllSameSlotAnswered =>
        /\ Cardinality({h \in Handlers : resp[h].status = 201}) = 1
        /\ Cardinality({h \in Handlers : resp[h].status = 409}) = NumHandlers - 1
        /\ Cardinality({b \in bookings : b.startAt = StartOf(1) /\ b.endAt = EndOfReq(1)}) = 1

AnsweredAgainstOne(h) ==
    /\ pc[h] = "done"
    /\ resp[h].status # 500
    /\ Cardinality(seen[h]) = 1

TheOneSeen(h) == BookingWithId(CHOOSE i \in seen[h] : TRUE)

\* C4: against one stored booking E, a submission starting exactly at
\* E.endAt + buffer (or ending exactly at E.startAt - buffer) is answered 201,
\* one starting a minute earlier (or ending a minute later) is answered 409.
C4_BoundaryHalfOpen ==
    \A h \in Handlers :
        AnsweredAgainstOne(h) =>
            /\ (\/ StartOf(h) = TheOneSeen(h).endAt + cfg.bufferMin
                \/ EndOfReq(h) = TheOneSeen(h).startAt - cfg.bufferMin)
                    => resp[h].status = 201
            /\ (\/ StartOf(h) = TheOneSeen(h).endAt + cfg.bufferMin - 1
                \/ EndOfReq(h) = TheOneSeen(h).startAt - cfg.bufferMin + 1)
                    => resp[h].status = 409

\* a submission starting exactly one buffer after the one stored booking got 201
C4_Witness ==
    \E h \in Handlers :
        /\ AnsweredAgainstOne(h)
        /\ StartOf(h) = TheOneSeen(h).endAt + cfg.bufferMin
        /\ resp[h].status = 201

\* C5: once the insert has succeeded the answer is 201 whatever sendEmail
\* does; a non-201 answer implies that the request stored no booking.
C5_Non201StoresNothing ==
    \A h \in Handlers :
        (pc[h] = "done" /\ resp[h].status # 201) => ~Stored(h)

-----------------------------------------------------------------------------
(* C6..C10: the availability policy *)

MinuteOfDay(t) == t % MinutesPerDay

\* Saturday or Sunday, counted from the Monday of day 0
OnWeekend(t) == DayIndex(t) % 7 \in {5, 6}

TwoDigits(n) == IF n < 10 THEN "0" \o ToString(n) ELSE ToString(n)

\* the local date YYYY-MM-DD of t: December 23..31, 2024, then January 2025
IsoDate(t) ==
    IF DayIndex(t) <= 8
    THEN "2024-12-" \o TwoDigits(23 + DayIndex(t))
    ELSE "2025-01-" \o TwoDigits(DayIndex(t) - 8)

\* start and end lie inside the open/close window of one local calendar day
InWindowSameDay(c, start, end) ==
    /\ DayIndex(start) = DayIndex(end)
    /\ MinuteOfDay(start) >= c.startHour * 60
    /\ MinuteOfDay(end) <= c.endHour * 60

\* required fields present, email and phone well-formed
WellFormed(r) ==
    /\ r.name # "" /\ r.service # "" /\ r.durationMinutes # 0
    /\ r.startAt.kind # "missing"
    /\ r.email = GoodEmail /\ r.phone = GoodPhone

\* rules 1-5 of the policy hold of r at time clock
PassesTimeRules(c, r, clock) ==
    /\ r.durationMinutes \in {15, 30, 45, 60}
    /\ r.service \in ALLOWED_SERVICES
    /\ r.startAt.kind = "instant"
    /\ r.startAt.t > clock
    /\ r.startAt.t <= clock + c.daysAhead * MinutesPerDay

\* C6: a submission passes the business-hours rule only if start and end lie
\* inside the open/close window of the same local day; a slot running past
\* midnight is rejected and never stored.
C6_HoursSameDay ==
    /\ \A h \in Handlers :
           PassedPolicy(h) => InWindowSameDay(cfg, StartOf(h), EndOfReq(h))
    /\ \A b \in bookings : InWindowSameDay(cfg, b.startAt, b.endAt)

\* the policy of section 4.2: the reason of the first violated rule, in order
FirstViolatedRule(c, r, clock) ==
    IF r.durationMinutes \notin {15, 30, 45, 60} THEN ErrDuration
    ELSE IF r.service \notin ALLOWED_SERVICES THEN ErrService
    ELSE IF r.startAt.kind # "instant" THEN ErrStart
    ELSE IF ~(r.startAt.t > clock) THEN ErrPast
    ELSE IF ~(r.startAt.t <= clock + c.daysAhead * MinutesPerDay) THEN ErrTooFar
    ELSE IF ~c.allowWeekends /\ OnWeekend(r.startAt.t) THEN ErrWeekend
    ELSE IF ~InWindowSameDay(c, r.startAt.t, EndOf(r)) THEN ErrHours
    ELSE IF IsoDate(r.startAt.t) \in c.blackout THEN ErrBlackout
    ELSE Accepted

\* C7: for a request with its required fields and a well-formed email and
\* phone, the answer is the reason of the first violated rule in the order
\* duration, service, start, past, too far, weekend, hours, blackout.
C7_FirstViolatedRuleReported ==
    \A i \in 1..Len(verdicts) :
        WellFormed(cand) =>
            verdicts[i].error = FirstViolatedRule(cfg, cand, verdicts[i].at)

\* C8: with allowWeekends=false a candidate starting on a Saturday or Sunday
\* that passes the earlier rules is answered 400 with the weekend reason,
\* whatever its time of day and date, and no stored booking starts on a
\* weekend day.
C8_WeekendRejectedFirst ==
    ~cfg.allowWeekends =>
        /\ \A h \in Handlers :
               (/\ pc[h] # "idle"
                /\ WellFormed(req[h])
                /\ PassesTimeRules(cfg, req[h], now)
                /\ OnWeekend(StartOf(h)))
                   => /\ pc[h] = "done"
                      /\ resp[h] = [status |-> 400, error |-> ErrWeekend]
                      /\ ~Stored(h)
        /\ \A b \in bookings : ~OnWeekend(b.startAt)

\* a Saturday request outside business hours on a blackout date got the
\* weekend reason
C8_Witness ==
    \E h \in Handlers :
        /\ ~cfg.allowWeekends
        /\ pc[h] = "done"
        /\ OnWeekend(StartOf(h))
        /\ ~InWindowSameDay(cfg, StartOf(h), EndOfReq(h))
        /\ IsoDate(StartOf(h)) \in cfg.blackout
        /\ resp[h] = [status |-> 400, error |-> ErrWeekend]

EarlierThanHours ==
    {ErrRequired, ErrDuration, ErrService, ErrEmail, ErrPhone, ErrStart,
     ErrPast, ErrTooFar, ErrWeekend}

\* C9: on one day, a slot ending exactly at the close hour (and starting at
\* or after the open hour) passes the business-hours rule; a slot ending
\* after the close hour, or starting before the open hour, is rejected as
\* outside business hours.
C9_CloseHourInclusive ==
    \A i \in 1..Len(verdicts) :
        (/\ cand.startAt.kind = "instant"
         /\ verdicts[i].error \notin EarlierThanHours
         /\ DayIndex(cand.startAt.t) = DayIndex(EndOf(cand)))
            => /\ (/\ MinuteOfDay(EndOf(cand)) = cfg.endHour * 60
                   /\ MinuteOfDay(cand.startAt.t) >= cfg.startHour * 60)
                      => verdicts[i].error # ErrHours
               /\ (\/ MinuteOfDay(EndOf(cand)) > cfg.endHour * 60
                   \/ MinuteOfDay(cand.startAt.t) < cfg.startHour * 60)
                      => verdicts[i].error = ErrHours

\* with 9-18, a 60-minute slot at 17:00 was accepted
C9_Witness ==
    \E i \in 1..Len(verdicts) :
        /\ cfg.startHour = 9 /\ cfg.endHour = 18
        /\ cand.startAt.kind = "instant"
        /\ MinuteOfDay(cand.startAt.t) = 17 * 60
        /\ cand.durationMinutes = 60
        /\ verdicts[i].error = Accepted

\* C10: no booking created through POST /api/booking starts on a date of the
\* blackout set, and a submission on a blackout date that passes every other
\* rule is answered 400 with the blackout reason.
C10_NoBookingOnBlackoutDate ==
    /\ \A h \in Handlers :
           Stored(h) => IsoDate(BookingOf(h).startAt) \notin cfg.blackout
    /\ \A h \in Handlers :
           (/\ pc[h] # "idle"
            /\ WellFormed(req[h])
            /\ PassesTimeRules(cfg, req[h], now)
            /\ cfg.allowWeekends \/ ~OnWeekend(StartOf(h))
            /\ InWindowSameDay(cfg, StartOf(h), EndOfReq(h))
            /\ IsoDate(StartOf(h)) \in cfg.blackout)
               => /\ pc[h] = "done"
                  /\ resp[h] = [status |-> 400, error |-> ErrBlackout]
                  /\ ~Stored(h)

\* a weekday request inside business hours on a blackout date got the
\* blackout reason
C10_Witness ==
    \E h \in Handlers :
        /\ pc[h] = "done"
        /\ IsoDate(StartOf(h)) \in cfg.blackout
        /\ InWindowSameDay(cfg, StartOf(h), EndOfReq(h))
        /\ resp[h] = [status |-> 400, error |-> ErrBlackout]

-----------------------------------------------------------------------------
(* C11..C12: the lookahead window, the stored interval *)

\* the request reaches the comparison of its start with the clock
ReachesTimeWindow(r) ==
    /\ WellFormed(r)
    /\ r.durationMinutes \in {15, 30, 45, 60}
    /\ r.service \in {"UI/UX", "MERN", "Java Full Stack", "Python"}
    /\ r.startAt.kind = "instant"

Horizon(c, clock) == clock + c.daysAhead * 24 * 60

\* C11: a submission that reaches the time-window rules passes them iff
\* now < start <= now + daysAhead days, now read at submission time; a start
\* equal to now is answered as a past time, a start exactly daysAhead days
\* ahead passes, one minute later is answered as too far ahead.
C11_TimeWindowBounds ==
    \A i \in 1..Len(verdicts) :
        LET at == verdicts[i].at
            e == verdicts[i].error
            start == cand.startAt.t
        IN  ReachesTimeWindow(cand) =>
                /\ e = ErrPast <=> start <= at
                /\ e = ErrTooFar <=> start > Horizon(cfg, at)
                /\ e \notin {ErrPast, ErrTooFar}
                       <=> (at < start /\ start <= Horizon(cfg, at))

\* a start exactly daysAhead days after the clock was accepted
C11_Witness ==
    \E i \in 1..Len(verdicts) :
        /\ ReachesTimeWindow(cand)
        /\ cand.startAt.t = Horizon(cfg, verdicts[i].at)
        /\ verdicts[i].error = Accepted

\* C12: every stored booking has endAt = startAt + durationMinutes and a
\* duration of 15, 30, 45 or 60 minutes; no other duration of the schema's
\* range 15..180 is stored through POST /api/booking.
C12_StoredIntervalMatchesDuration ==
    \A b \in bookings :
        /\ b.endAt = b.startAt + b.durationMinutes
        /\ b.durationMinutes \in {15, 30, 45, 60}

\* a handler stored a booking and another was answered 400 for its duration
C12_Witness ==
    /\ \E h \in Handlers : Stored(h) /\ BookingOf(h).durationMinutes = 15
    /\ \E h \in Handlers :
           /\ req[h].durationMinutes = 20
           /\ resp[h] = [status |-> 400, error |-> ErrDuration]

-----------------------------------------------------------------------------
(* C13..C14: what the admin update may change *)

\* the cookie is a signed, unexpired session of the configured admin
ValidSession(token, clock) ==
    /\ adminUser # ""
    /\ token.kind = "token"
    /\ token.sig = "ok"
    /\ token.user = adminUser
    /\ token.exp # 0
    /\ token.exp >= clock

SameButAdminFields(a, b) ==
    /\ a.id = b.id
    /\ a.name = b.name /\ a.email = b.email /\ a.phone = b.phone
    /\ a.service = b.service
    /\ a.startAt = b.startAt /\ a.endAt = b.endAt
    /\ a.durationMinutes = b.durationMinutes
    /\ a.createdAt = b.createdAt

\* C13: a stored booking is never deleted, and its interval, duration,
\* requester fields and creation time never change; a step that changes a
\* stored booking is the updateOne of an admin request that passed adminAuth
\* with a valid unexpired session token, and it changes only status,
\* paymentStatus and adminNote of the booking whose id the request names.
C13_OnlyAdminFieldsOfNamedBooking ==
    [][\A b \in bookings :
          \E c \in bookings' :
              /\ SameButAdminFields(b, c)
              /\ c # b => /\ adm.pc = "updateOne"
                          /\ adm.id = b.id
                          /\ ValidSession(adm.token, adm.at)]_vars

\* an admin update went through on one of two stored bookings
C13_Witness ==
    /\ adm.status = 302
    /\ \E b \in bookings :
           /\ b.status = "In Progress" /\ b.paymentStatus = "Paid"
           /\ b.adminNote = "called"
    /\ \E b \in bookings :
           b.status = "New" /\ b.paymentStatus = "Unpaid" /\ b.adminNote = ""

\* C14: every stored booking has a status among New, In Progress, Done and a
\* paymentStatus among Unpaid, Paid, also after admin updates with arbitrary
\* form values; a booking just created is New and Unpaid.
C14_StatusWithinEnums ==
    /\ \A b \in bookings :
           /\ b.status \in {"New", "In Progress", "Done"}
           /\ b.paymentStatus \in {"Unpaid", "Paid"}
    /\ adm = NoAdminRequest =>
           \A h \in Handlers :
               Stored(h) =>
                   /\ BookingOf(h).status = "New"
                   /\ BookingOf(h).paymentStatus = "Unpaid"

-----------------------------------------------------------------------------
(* C15..C20: rejections, failures, the conflict decision *)

\* C15: a submission answered 400 or 409 leaves the stored bookings as they
\* were and sends no notification: the step that answers it changes no
\* booking, and the submission has reached neither Booking.create nor
\* sendEmail.
C15_RejectionStoresAndSendsNothing ==
    [][\A h \in Handlers :
          resp'[h].status \in {400, 409} =>
              /\ created'[h] = 0
              /\ mails'[h] = [calls |-> 0, sent |-> 0]
              /\ resp[h] # resp'[h] => bookings' = bookings]_vars

\* one submission answered 400, one answered 409
C15_Witness ==
    /\ \E h \in Handlers : resp[h].status = 400 /\ created[h] = 0
    /\ \E h \in Handlers :
           /\ resp[h] = [status |-> 409, error |-> ErrConflict]
           /\ mails[h].calls = 0

\* C16: when the store fails during the conflict query or the insert (the
\* handler leaves findOne or create for its answer without a conflict), the
\* answer is 500 'Server error', never 201, and no booking of that submission
\* is stored.
C16_StoreFailureAnswers500 ==
    [][\A h \in Handlers :
          (/\ pc[h] \in {"findOne", "create"}
           /\ pc'[h] = "done"
           /\ resp'[h].status # 409) =>
              /\ resp'[h] = [status |-> 500, error |-> ErrServer]
              /\ created'[h] = 0
              /\ bookings' = bookings]_vars

\* a submission past the policy answered 500 before any mail, nothing stored
C16_Witness ==
    \E h \in Handlers :
        /\ pc[h] = "done"
        /\ resp[h] = [status |-> 500, error |-> ErrServer]
        /\ mails[h].calls = 0
        /\ created[h] = 0

\* C17: a request rejected once is rejected for the same reason when it is
\* submitted again, however much time has passed in between.
C17_SameReasonTwice ==
    \A i, j \in 1..Len(verdicts) :
        (i < j /\ verdicts[i].error # Accepted) =>
            verdicts[j].error = verdicts[i].error

\* the reasons given before the lookahead horizon is read
ClockFreeReasons ==
    {ErrRequired, ErrDuration, ErrService, ErrEmail, ErrPhone, ErrStart, ErrPast}

\* C17 as it holds: the reason is the same both times when the clock reads
\* the same at both submissions, or when the first reason is a missing
\* field, the duration, the service, the email, the phone, an unparsable
\* start or a start in the past.
C17_SameReasonSameClockOrClockFree ==
    \A i, j \in 1..Len(verdicts) :
        (/\ i < j
         /\ \/ verdicts[i].at = verdicts[j].at /\ verdicts[i].error # Accepted
            \/ verdicts[i].error \in ClockFreeReasons) =>
            verdicts[j].error = verdicts[i].error

\* rejected for its duration on Monday and again on Tuesday, when its start
\* has passed
C17_Witness ==
    /\ Len(verdicts) = 2
    /\ verdicts[1].at < verdicts[2].at
    /\ cand.startAt.kind = "instant"
    /\ cand.startAt.t > verdicts[1].at
    /\ cand.startAt.t <= verdicts[2].at
    /\ verdicts[1].error = ErrDuration
    /\ verdicts[2].error = ErrDuration

\* C18: without SMTP_HOST, SMTP_USER and SMTP_PASS no sendEmail call raises or
\* sends, and a submission that passed the policy and found no conflict is
\* stored and answered 201.
C18_UnconfiguredNotifierIsNoOp ==
    ~cfg.smtp =>
        \A h \in Handlers :
            /\ mails[h].sent = 0
            /\ pc[h] \in {"notifyOperator", "notifyRequester"} => Stored(h)
            /\ (pc[h] = "done" /\ mails[h].calls > 0) =>
                   /\ resp[h].status = 201
                   /\ Stored(h)
                   /\ \E b \in bookings : b.id = created[h]

\* sendEmail was called without SMTP settings and the answer was 201
C18_Witness ==
    /\ ~cfg.smtp
    /\ \E h \in Handlers :
           /\ Succeeded(h)
           /\ mails[h] = [calls |-> 1, sent |-> 0]

\* C19: when each submission is answered before the next begins, any two
\* distinct stored bookings A and B have A.endAt + buffer <= B.startAt or
\* B.endAt + buffer <= A.startAt.
C19_SequentialBufferApart ==
    \A a, b \in bookings :
        a # b =>
            \/ a.endAt + cfg.bufferMin <= b.startAt
            \/ b.endAt + cfg.bufferMin <= a.startAt

\* two bookings exactly one buffer apart, every submission answered
C19_Witness ==
    /\ \A h \in Handlers : pc[h] = "done"
    /\ \E a, b \in bookings : a.endAt + cfg.bufferMin = b.startAt

\* stored booking b meets the buffered window of the candidate of h
MeetsBufferedWindow(b, h) ==
    /\ b.startAt < EndOfReq(h) + cfg.bufferMin
    /\ b.endAt > StartOf(h) - cfg.bufferMin

PolicyReasons ==
    {ErrRequired, ErrDuration, ErrService, ErrEmail, ErrPhone, ErrStart,
     ErrPast, ErrTooFar, ErrWeekend, ErrHours, ErrBlackout}

\* C20: a submission past validation and policy is answered 409 iff some
\* booking stored when its query ran has startAt < candidate end + buffer and
\* endAt > candidate start - buffer; otherwise it goes on to the insert. 409
\* comes from no other path: a 400 carries a validation or policy reason,
\* a 409 the conflict message.
C20_ConflictIffStoredMeetsWindow ==
    \A h \in Handlers :
        /\ resp[h].status = 409 =>
               /\ resp[h].error = ErrConflict
               /\ \E b \in bookings : b.id \in seen[h] /\ MeetsBufferedWindow(b, h)
        /\ (pc[h] \in {"create", "notifyOperator", "notifyRequester"} \/ Stored(h)) =>
               \A b \in bookings : b.id \in seen[h] => ~MeetsBufferedWindow(b, h)
        /\ resp[h].status = 400 => resp[h].error \in PolicyReasons
        /\ resp[h].status \in {0, 201, 400, 409, 500}

\* one submission answered 409 against a stored booking, another stored
\* one buffer after it
C20_Witness ==
    /\ \E h \in Handlers :
           /\ resp[h].status = 409
           /\ \E b \in bookings : b.id \in seen[h] /\ MeetsBufferedWindow(b, h)
    /\ \E h \in Handlers :
           /\ Stored(h)
           /\ seen[h] # {}
           /\ \A b \in bookings : b.id \in seen[h] => ~MeetsBufferedWindow(b, h)

-----------------------------------------------------------------------------
(* C21..C23: order of validation, the life of a submission, availability *)

\* every required field of the body is present
RequiredPresent(r) ==
    /\ r.name # "" /\ r.email # <<>> /\ r.phone # <<>> /\ r.service # ""
    /\ r.durationMinutes # 0
    /\ r.startAt.kind # "missing"

\* C21: format validation comes before every policy rule: a request with all
\* required fields and a malformed email or phone is answered with the email
\* or phone error, also when its duration or service is not allowed.
C21_FormatErrorBeforePolicy ==
    \A i \in 1..Len(verdicts) :
        (RequiredPresent(cand) /\ (cand.email = BadEmail \/ cand.phone = BadPhone)) =>
            verdicts[i].error \in {ErrEmail, ErrPhone}

\* the terminal outcomes of a submission
EndedRejected(h) == resp[h].status = 400 /\ ~Stored(h)

EndedConflict(h) == resp[h].status = 409 /\ ~Stored(h)

EndedPersisted(h) == resp[h].status = 201 /\ Stored(h)

EndedStorageFailure(h) == resp[h].status = 500 /\ ~Stored(h)

OutcomesOf(h) ==
    {o \in {"Rejected", "Conflict", "Persisted", "StorageFailure"} :
        \/ o = "Rejected" /\ EndedRejected(h)
        \/ o = "Conflict" /\ EndedConflict(h)
        \/ o = "Persisted" /\ EndedPersisted(h)
        \/ o = "StorageFailure" /\ EndedStorageFailure(h)}

\* C22: a submission that has been answered ended in exactly one of Rejected,
\* Conflict, Persisted or a storage failure; a booking is inserted only after
\* the submission's own query found no overlap, and each submission inserts
\* at most one booking.
C22_OneTerminalOutcome ==
    /\ \A h \in Handlers :
           /\ pc[h] = "done" => Cardinality(OutcomesOf(h)) = 1
           /\ Stored(h) =>
                  /\ pc[h] \notin {"idle", "findOne", "create"}
                  /\ \A b \in bookings :
                         b.id \in seen[h] => ~MeetsBufferedWindow(b, h)
    /\ \A b \in bookings : b = SeedBooking \/ \E h \in Handlers : created[h] = b.id
    /\ \A g, h \in Handlers :
           (g # h /\ Stored(g) /\ Stored(h)) => created[g] # created[h]

\* the bookings that were stored when the availability query ran
StoredAtQuery == {b \in bookings : b.id \in avail.seen}

\* b starts before the end of day `to` and ends after the start of day `from`
WithinDays(b, from, to) ==
    /\ DayIndex(b.startAt) <= to.d
    /\ b.endAt > from.d * 24 * 60

IntervalCount(S, s, e) == Cardinality({b \in S : b.startAt = s /\ b.endAt = e})

\* the answer given to the availability request
AvailAnswerExact ==
    /\ avail.status = 200 =>
           /\ avail.from.kind = "day" /\ avail.to.kind = "day"
           /\ LET due == {b \in StoredAtQuery : WithinDays(b, avail.from, avail.to)}
              IN  /\ \A b \in due :
                         /\ [startAt |-> b.startAt, endAt |-> b.endAt] \in DOMAIN avail.body
                         /\ avail.body[[startAt |-> b.startAt, endAt |-> b.endAt]]
                                = IntervalCount(due, b.startAt, b.endAt)
                  /\ \A e \in DOMAIN avail.body :
                         /\ DOMAIN e = {"startAt", "endAt"}
                         /\ \E b \in due : b.startAt = e.startAt /\ b.endAt = e.endAt
    /\ avail.status = 400 =>
           /\ avail.seen = {} /\ avail.body = <<>>
           /\ \E p \in {avail.from, avail.to} : p.kind # "day"
    /\ (avail.pc = "idle" /\ avail.status # 0
          /\ \E p \in {avail.from, avail.to} : p.kind # "day") => avail.status = 400

\* C23: the availability request with days from and to returns exactly the
\* stored bookings that start before the end of day `to` and end after the
\* start of day `from`, without buffer; no step of the request changes the
\* store; a missing or unparsable from/to is answered 400 without a query.
C23_AvailabilityExactAndReadOnly ==
    [][/\ AvailAnswerExact'
       /\ avail' # avail => bookings' = bookings
       /\ (avail'.pc = "find" /\ avail.pc = "idle") =>
              avail'.from.kind = "day" /\ avail'.to.kind = "day"]_vars

\* Wednesday was asked for: the booking that ends at Wednesday 00:00 is left
\* out, the one from Wednesday 23:30 to Thursday 00:30 is returned
C23_Witness ==
    /\ avail.status = 200
    /\ avail.from = Day(2) /\ avail.to = Day(2)
    /\ \E b \in StoredAtQuery : b.endAt = At(2, 0, 0)
    /\ DOMAIN avail.body = {[startAt |-> At(2, 23, 30), endAt |-> At(3, 0, 30)]}

-----------------------------------------------------------------------------
(* C24: the magic link *)

\* C24: over all interleavings of verify requests that carry the same token
\* at most one is answered with a client_session cookie, every other one
\* gets 400 'Token expired or invalid.', and a token past its expiresAt is
\* never accepted.
C24_TokenSingleUse ==
    /\ \A v, w \in Verifiers :
           (v # w /\ ver[v].token = ver[w].token /\ ver[v].cookie # "") =>
               /\ ver[w].cookie = ""
               /\ ver[w].pc = "done" =>
                      ver[w].status = 400 /\ ver[w].error = ErrTokenExpired
    /\ \A v \in Verifiers :
           ver[v].cookie # "" => ver[v].record.expiresAt >= ver[v].at

-----------------------------------------------------------------------------
(* C25: the two implementations of POST /api/booking *)

\* the reason a message of either handler stands for
ReasonOf(message) ==
    CASE message \in {ErrRequired, SlsRequired} -> "required"
      [] message \in {ErrDuration, SlsDuration} -> "duration"
      [] message \in {ErrService, SlsService} -> "service"
      [] message \in {ErrEmail, SlsEmail} -> "email"
      [] message \in {ErrPhone, SlsPhone} -> "phone"
      [] message \in {ErrStart, SlsStart} -> "start"
      [] message \in {ErrPast, SlsPast} -> "past"
      [] message \in {ErrTooFar, SlsTooFar} -> "tooFar"
      [] message \in {ErrWeekend, SlsWeekend} -> "weekend"
      [] message \in {ErrHours, SlsHours} -> "hours"
      [] message \in {ErrBlackout, SlsBlackout} -> "blackout"
      [] OTHER -> message

\* C25: on the same request, clock and configuration the Express route and
\* the serverless handler both accept, or both reject for the same reason.
C25_SameOutcomeBothHandlers ==
    \A i \in 1..Len(verdicts) :
        /\ i <= Len(slsVerdicts)
        /\ slsVerdicts[i].at = verdicts[i].at
        /\ ReasonOf(slsVerdicts[i].error) = ReasonOf(verdicts[i].error)

-----------------------------------------------------------------------------
(* C26: what the login form gives away *)

\* C26: the answer to POST /client/login (status and body) is the same in two
\* runs that differ only in whether the submitted email is a registered
\* client's.
C26_LoginAnswerIndependentOfClient ==
    \A v, w \in Worlds :
        (login[v].pc = "done" /\ login[w].pc = "done") =>
            /\ login[v].status = login[w].status
            /\ login[v].body = login[w].body

\* the flags of a project that a client may set stay set across a step
FlagsKept(p) ==
    /\ \A i \in DOMAIN projects[p].milestones :
           projects[p].milestones[i].approved => projects'[p].milestones[i].approved
    /\ \A i \in DOMAIN projects[p].contracts :
           projects[p].contracts[i].status = "Signed"
               => projects'[p].contracts[i].status = "Signed"

\* the request in progress names this project of its own client, with an
\* index inside the list when it approves or confirms
MayChange(p) ==
    /\ portal.client # ""
    /\ portal.id = p
    /\ projects[p].clientId = portal.client
    /\ portal.kind = "approve" =>
           portal.index.kind = "int" /\ portal.index.n \in 0..(Len(projects[p].milestones) - 1)
    /\ portal.kind = "confirm" =>
           portal.index.kind = "int" /\ portal.index.n \in 0..(Len(projects[p].contracts) - 1)

\* C27: a step of a client-portal request changes a project only when the
\* request is authenticated as the project's client and names it, with an
\* index inside the list for an approval or a confirmation; and no step
\* resets an approved flag or a Signed status
C27_ClientChangesOwnProjectsOnly ==
    [][\A p \in DOMAIN projects :
           /\ projects'[p] # projects[p] => MayChange(p)
           /\ FlagsKept(p)]_vars

\* client c2 was answered after asking to approve a milestone of client
\* c1's project, which c1 had approved before; c2's own project is untouched
C27_Witness ==
    /\ portal.pc = "idle" /\ portal.status = 302 /\ portal.to = "/client"
    /\ portal.client = "c2" /\ portal.id = 1 /\ portal.kind = "approve"
    /\ projects[1].milestones[1].approvedBy = "c1"
    /\ projects[1].contracts[1].status = "Signed"
    /\ Len(projects[1].feedback) = 1
    /\ projects[2] = InitialProjects[2]

\* C28: per client IP at most LOGIN_MAX requests reach the credential
\* comparison between two restarts of its bucket; a request counted beyond
\* LOGIN_MAX is answered 429, compares nothing and sets no cookie, whatever
\* its credentials; and a bucket's counter restarts only on a request that
\* arrives strictly after resetAt, which is then 10 minutes after that request
C28_LoginAttemptsLimited ==
    [][/\ \A ip \in LimitIps : reached'[ip] <= LOGIN_MAX
       /\ adminLogin'.count > LOGIN_MAX =>
              /\ adminLogin'.status = 429
              /\ ~adminLogin'.compared
              /\ adminLogin'.cookie = NoToken
       /\ adminLogin'.status = 429 => adminLogin'.count > LOGIN_MAX
       /\ \A ip \in DOMAIN loginBuckets :
              /\ loginBuckets'[ip].count > loginBuckets[ip].count =>
                     /\ loginBuckets'[ip].count = loginBuckets[ip].count + 1
                     /\ loginBuckets'[ip].resetAt = loginBuckets[ip].resetAt
              /\ loginBuckets'[ip].count < loginBuckets[ip].count
                 \/ loginBuckets'[ip].resetAt # loginBuckets[ip].resetAt =>
                     /\ NowMs > loginBuckets[ip].resetAt
                     /\ loginBuckets'[ip] = [count |-> 1, resetAt |-> NowMs + LOGIN_WINDOW_MS]
       /\ \A ip \in DOMAIN loginBuckets' \ DOMAIN loginBuckets :
              loginBuckets'[ip] = [count |-> 1, resetAt |-> NowMs + LOGIN_WINDOW_MS]]_vars

\* a sixth request in the window, with the right credentials, was answered
\* 429 at the very instant resetAt, after five requests were compared
C28_Witness ==
    /\ adminLogin.status = 429 /\ adminLogin.correct /\ adminLogin.count = LOGIN_MAX + 1
    /\ reached[adminLogin.ip] = LOGIN_MAX
    /\ NowMs = loginBuckets[adminLogin.ip].resetAt

-----------------------------------------------------------------------------
(* C29: what the availability answer depends on *)

\* the same booking made by another requester and handled by the admin
OtherRequester(b) ==
    [b EXCEPT !.name = "Eve", !.email = "eve@y.org", !.phone = "+1 555 0100",
              !.service = "Other", !.status = "Cancelled", !.paymentStatus = "Paid",
              !.adminNote = "called twice"]

\* the stores with the intervals of S whose bookings differ from those of S
\* in the fields of the requester and of the admin
SameIntervalStores(S) ==
    {{IF b \in T THEN OtherRequester(b) ELSE b : b \in S} : T \in SUBSET S}

\* the body the route answers on store S for the days asked
AnswerOn(S, from, to) ==
    EntriesOf({b \in S : InRange(b, startOfDay(from), endOfDay(to))})

\* C29: the body answered by GET /api/booking/availability is the body the
\* route answers on every store that has the same intervals and other names,
\* emails, phones, services, statuses, payment statuses and admin notes; its
\* entries carry startAt and endAt only
C29_AnswerDependsOnIntervalsOnly ==
    avail.status = 200 =>
        /\ \A S \in SameIntervalStores(StoredAtQuery) :
               AnswerOn(S, avail.from, avail.to) = avail.body
        /\ \A e \in DOMAIN avail.body : DOMAIN e = {"startAt", "endAt"}

\* an answer with two entries, one of a booking stored while the request was
\* being made
C29_Witness ==
    /\ avail.status = 200
    /\ Cardinality(DOMAIN avail.body) >= 2
    /\ \E b \in StoredAtQuery : b.createdAt > 0 /\ Entry(b) \in DOMAIN avail.body

-----------------------------------------------------------------------------
(* C30: the page's isSlotTaken and the server's conflict query *)

\* the body the page posts for its slot
PageRequest == Slot(page.slot.start, page.slot.duration)

\* the page's answer for its slot is the answer of the server's filter on
\* the list the page holds
TakenIffQueryOnList ==
    page.taken <=>
        \E b \in page.availability : ProbeHits(cfg, b, page.slot.start, page.slot.end)

\* POST /api/booking for the page's slot would be answered 409 now
WouldAnswer409 ==
    /\ Validate(cfg, PageRequest, now) = Accepted
    /\ \E b \in bookings : ProbeHits(cfg, b, page.slot.start, page.slot.end)

\* no booking was stored since the page fetched its list
SnapshotCurrent == page.seen = {b.id : b \in bookings}

\* C30: for a slot the page renders, isSlotTaken on the fetched list with the
\* buffer of /config agrees with the server's conflict filter on that list,
\* and a slot rendered free while no booking was stored since the fetch is
\* not answered 409
C30_FreeSlotNotAnswered409 ==
    page.pc = "rendered" =>
        /\ TakenIffQueryOnList
        /\ ~page.taken /\ SnapshotCurrent => ~WouldAnswer409

====
